---- MODULE Spec2Model ----
\* Session / query-cache layer and retrieval client of the news chatbot backend:
\* backend/src/services/redis.service.js, session.service.js, chatbot.service.js.
\*
\* One Redis client is shared by every request (a singleton), so the server runs
\* the commands in the order they are sent. An async method is therefore a
\* sequence of atomic steps, one per awaited Redis command (or awaited model /
\* vector-store call), and the steps of different requests interleave freely.
EXTENDS Integers, Sequences, FiniteSets, TLC

\* ---------------------------------------------------------------- bounds
\* Messages appended in one run of the concurrent session specification.
MaxAppends == 2
\* Messages appended in one run of the sequential specification (past the cap).
MaxSeqAppends == 52
\* Clock ticks in one run.
MaxTicks == 2
\* Largest maxMessages argument tried on getContextForRAG.
MaxN == 2
\* searchChroma / healthCheck calls started in one run.
MaxSearches == 2
\* processQuery calls started in one run.
MaxAnswers == 2
\* POST /chat requests started in one run.
MaxChats == 1
\* Longest conversation history handed to generateResponse.
MaxTurns == 4
\* Largest maxLength argument tried on buildContext.
MaxChars == 120
\* The appends, and the searches, of the writing caller beside a reader.
MaxWrites == 1
\* /chat requests the chat page sends in one run.
MaxSends == 2
\* Sessions the chat page asks for in one run (the one of the mount included).
MaxSessions == 2

\* ------------------------------------------------------ program constants
\* history.slice(-50)
MAX_MESSAGES == 50
\* parseInt(process.env.SESSION_TTL) || 86400
SESSION_TTL == 86400
\* redisService.cacheQuery(queryHash, results, 3600)
QUERY_TTL == 3600
\* sessionService.getContextForRAG(currentSessionId, 5)
CONTEXT_MESSAGES == 5
\* parseInt(process.env.MAX_CONTEXT_LENGTH) || 4000
MAX_CONTEXT_LENGTH == 4000
\* `if (distance > 0.8) continue`; distances are kept in hundredths.
DISTANCE_CUTOFF == 80

\* ------------------------------------------------------------ input sets
Sessions == {"s1", "s2"}
Reqs == {"r1", "r2"}
Roles == {"user", "assistant"}
Contents == {"hello"}
\* Log lengths the sessions may already have in the store when the run starts:
\* one session one short of the cap, the other with no log yet.
InitLens == {[s \in Sessions |-> IF s = "s1" THEN MAX_MESSAGES - 1 ELSE 0]}
\* The clock advances by half a session TTL per tick.
SessionTick == SESSION_TTL \div 2
\* In the retrieval specification it advances by half a query-cache TTL.
QueryTick == QUERY_TTL \div 2
Queries == {"q1", "q2"}
\* The session ids handed to the session methods: the two sessions and a
\* missing id.
SessionIds == Sessions \cup {""}
\* A timestamp a caller puts on a message: no time the clock of the run shows.
CallerTimestamps == {7}
\* What the vector store may answer to a query: the ranked passages.
\* (results.documents, an array holding the array of documents).
Results == {<<<<"doc1">>>>, <<<<"doc2", "doc1">>>>}
\* The queries whose passages a new ingestion run changes.
UpdatedQueries == {"q1"}

VARIABLES
  isConnected,  \* RedisService.isConnected
  clientOk,     \* whether a command sent on RedisService.client succeeds (FALSE: it throws)
  redis,        \* the Redis keyspace: key -> [present, val, expireAt]
  now,          \* the clock, in seconds
  nextId,       \* the next fresh uuid, as a counter
  pc,           \* per request: where its async method is
  op,           \* per request: the method it runs
  rsid,         \* per request: the sessionId argument
  rmsg,         \* per request: addToSessionHistory's message argument
  hist,         \* per request: the method's local `history`
  rmax,         \* per request: getContextForRAG's maxMessages argument
  ret,          \* per request: the value the method returned
  outcome,      \* per request: "none" | "ok" (returned) | "error" (threw)
  logical,      \* per session: every message stored by a successful append since
                \* the key was last absent, in store order
  lastWriter,   \* per session: the request whose store was the key's latest change
  missed,       \* per request: the requests that stored to its key after its load
  embedder,     \* chatbot.service: `let embedder` ("unset" or "loaded")
  chromaClient, \* chatbot.service: `let chromaClient` ("unset" or "created")
  collection,   \* the vector store: query -> the passages it answers now
  calls,        \* call counters: pipeline(), new ChromaClient, getCollection,
                \* embedder(query), collection.query, and calls started
  rquery,       \* per request: searchChroma's query argument
  rstale,       \* per request: the vector store changed after its collection.query
  written,      \* per query: the last cache write (time, value, staleness)
  chat,         \* per request: the POST /chat handler it runs (stage, locals, response)
  proc,         \* per request: the processQuery call it runs (stage, locals, result)
  build,        \* a buildContext call on its own: arguments and returned text
  gen,          \* a context and prompt construction on its own: arguments, results
  ui,           \* the React state of the chat page (App's useState values)
  net           \* the page's HTTP requests that have not settled yet

vars == <<isConnected, clientOk, redis, now, nextId, pc, op, rsid, rmsg, hist,
          rmax, ret, outcome, logical, lastWriter, missed, embedder,
          chromaClient, collection, calls, rquery, rstale, written, chat, proc,
          build, gen, ui, net>>

\* The variables of the retrieval client, and those of the session methods.
searchVars == <<embedder, chromaClient, collection, calls, rquery, rstale, written>>
sessionVars == <<nextId, rsid, rmsg, hist, rmax, logical, lastWriter, missed>>
\* The variables of the /chat handler, of processQuery, of buildContext and of
\* the prompt construction.
ragVars == <<chat, proc, build, gen>>
\* The variables of the chat page.
uiVars == <<ui, net>>

\* ------------------------------------------------------------- JS helpers
Max(a, b) == IF a > b THEN a ELSE b
Min(a, b) == IF a < b THEN a ELSE b

\* Array.prototype.slice(start): a negative start counts from the end, and
\* -0 is 0, so slice(-0) is the whole array.
JsSlice(arr, start) ==
  LET len  == Len(arr)
      from == IF start < 0 THEN Max(len + start, 0) ELSE Min(start, len)
  IN  SubSeq(arr, from + 1, len)

\* JSON.stringify / JSON.parse on the values this program stores (arrays of
\* plain objects of strings, numbers and null): the text is kept as a tagged
\* value, distinct from the value it encodes.
JSONStringify(v) == <<"json", v>>
JSONParse(text) == text[2]
\* JSON.parse throws a SyntaxError on a text that is not JSON.
CanParse(text) == text[1] = "json"
\* A value some other client of the Redis server left under a key.
NotJson == <<"text", "not json">>

\* Strings are TLA+ strings: Len is String.length, \o is +, SubSeq is substring.
IsSpace(c) == c \in {" ", "\n", "\t", "\r"}

RECURSIVE TrimStart(_)
TrimStart(s) ==
  IF Len(s) > 0 /\ IsSpace(SubSeq(s, 1, 1)) THEN TrimStart(SubSeq(s, 2, Len(s))) ELSE s

RECURSIVE TrimEnd(_)
TrimEnd(s) ==
  IF Len(s) > 0 /\ IsSpace(SubSeq(s, Len(s), Len(s)))
  THEN TrimEnd(SubSeq(s, 1, Len(s) - 1)) ELSE s

\* String.prototype.trim
Trim(s) == TrimEnd(TrimStart(s))

\* `value || fallback` on a string: the empty string is falsy.
OrElse(value, fallback) == IF value = "" THEN fallback ELSE value

\* A string of n copies of s.
RECURSIVE Repeat(_, _)
Repeat(s, n) ==
  IF n = 0 THEN ""
  ELSE LET half == Repeat(s, n \div 2)
       IN  half \o half \o (IF n % 2 = 1 THEN s ELSE "")

\* A value that is `undefined` where a number is expected.
Undefined == -1

\* null where a number (a token count) is expected.
Null == 0

\* `a > b` on numbers: false when a is undefined (NaN compares false).
JsGreater(a, b) == a # Undefined /\ a > b

\* ------------------------------------------------------------ Redis model
NoKey == [present |-> FALSE, val |-> <<>>, expireAt |-> 0]

\* A key that leaves the session id out.
SessionKeyShared(sessionId) == <<"session", "s1">>

\* `session:${sessionId}`
SessionKey(sessionId) == <<"session", sessionId>>

\* A digest that is the same for every query.
QueryHashConstant(query) == <<"md5", "q1">>

\* crypto.createHash('md5').update(query).digest('hex'): distinct queries
\* have distinct digests.
QueryHash(query) == <<"md5", query>>

\* `query:${queryHash}`
QueryKey(queryHash) == <<"query", queryHash>>

Keys == {SessionKey(s) : s \in Sessions} \cup {QueryKey(QueryHash(q)) : q \in Queries}

\* GET key: the stored text, or null (modelled as <<>>) when the key is absent.
\* A key whose TTL has elapsed is absent.
RedisGet(key) ==
  IF redis[key].present /\ now < redis[key].expireAt THEN redis[key].val ELSE <<>>

\* SET key value KEEPTTL: overwrite the value; a key that exists keeps its TTL.
RedisSetKeepTTL(key, ttl, value) ==
  [redis EXCEPT ![key] = [present |-> TRUE, val |-> value,
                          expireAt |-> IF redis[key].present THEN redis[key].expireAt
                                       ELSE now + ttl]]

\* SETEX key ttl value: overwrite the value and restart the TTL.
RedisSetEx(key, ttl, value) ==
  [redis EXCEPT ![key] = [present |-> TRUE, val |-> value, expireAt |-> now + ttl]]

\* DEL key: the keyspace without the key.
RedisDel(key) == [redis EXCEPT ![key] = NoKey]

\* A DEL that reports one removed key whether or not the key existed.
RedisDelCountOne(key) == 1

\* The number of keys DEL removed.
RedisDelCount(key) == IF RedisGet(key) # <<>> THEN 1 ELSE 0

\* ---------------------------------------------------- RedisService reads
\* A read that returns what the key holds although the command failed.
getSessionHistoryNoCatch(sessionId) ==
  IF ~isConnected THEN <<>>
  ELSE LET history == RedisGet(SessionKey(sessionId))
       IN  IF history # <<>> /\ CanParse(history) THEN JSONParse(history) ELSE <<>>

\* getSessionHistory: [] when not connected, when the command throws, when the
\* key is absent or when JSON.parse throws (all caught); the parsed array
\* otherwise.
getSessionHistory(sessionId) ==
  IF ~isConnected THEN <<>>
  ELSE IF ~clientOk THEN <<>>
  ELSE LET history == RedisGet(SessionKey(sessionId))
       IN  IF history = <<>> THEN <<>>
           ELSE IF ~CanParse(history) THEN <<>>
           ELSE JSONParse(history)

\* The log stored under session:<id> (empty when the key is absent).
StoredLog(sessionId) ==
  LET text == RedisGet(SessionKey(sessionId))
  IN  IF text # <<>> THEN JSONParse(text) ELSE <<>>

\* A trim that keeps one message too many.
TrimHistoryOffByOne(history) == JsSlice(history, -(MAX_MESSAGES + 1))

\* A trim that keeps the oldest 50 messages instead of the newest.
TrimHistoryHead(history) == SubSeq(history, 1, Min(Len(history), MAX_MESSAGES))

\* addToSessionHistory: history.slice(-50)
TrimHistory(history) == JsSlice(history, -MAX_MESSAGES)

\* { timestamp: new Date().toISOString(), ...message }: a timestamp the
\* message already carries wins.
WithTimestampKeep(message) ==
  IF message.timestamp # -1 THEN message ELSE [message EXCEPT !.timestamp = now]

\* addToSessionHistory: { ...message, timestamp: new Date().toISOString() }
WithTimestamp(message) == [message EXCEPT !.timestamp = now]

\* addMessage(sessionId, role, content, metadata = {}): the default metadata.
NoMetadata == <<>>

\* SessionService.addMessage: { role, content, metadata, id: uuidv4() }
NewMessageWith(role, content, metadata) ==
  [id |-> nextId, role |-> role, content |-> content, metadata |-> metadata,
   timestamp |-> -1]

\* addMessage called without metadata.
NewMessage(role, content) == NewMessageWith(role, content, NoMetadata)

\* ------------------------------------------------------------------ Init
\* A log of n messages left in the store by n earlier appends, the last of
\* them half a session TTL ago.
InitLog(sessionId, n) ==
  [i \in 1..n |->
     [id |-> -(IF sessionId = "s1" THEN i ELSE MAX_MESSAGES + i),
      role |-> IF i % 2 = 1 THEN "user" ELSE "assistant",
      content |-> "hello", metadata |-> NoMetadata, timestamp |-> 0]]

InitRedis(lens) ==
  [k \in Keys |->
     LET s == k[2]
     IN  IF k[1] # "session" \/ lens[s] = 0 THEN NoKey
         ELSE [present |-> TRUE, val |-> JSONStringify(InitLog(s, lens[s])),
               expireAt |-> SessionTick]]

NoCalls == [pipeline |-> 0, newClient |-> 0, getCollection |-> 0, embed |-> 0,
            query |-> 0, started |-> 0, processQuery |-> 0, chat |-> 0]

NotWritten == [at |-> -1, val |-> <<>>, stale |-> FALSE]

NoMessage == [id |-> 0, role |-> "", content |-> "", metadata |-> NoMetadata,
              timestamp |-> -1]

\* No response object (yet).
NoResponse == [content |-> "", sources |-> <<>>, tokensUsed |-> Null, set |-> FALSE]

\* A search result without passages.
EmptyResult == [documents |-> <<<<>>>>, metadatas |-> <<<<>>>>, distances |-> <<<<>>>>]

\* A request slot that runs no route handler. stage: the call the handler is
\* at ("context", "userAdd", "process", "assistantAdd" for POST /chat, "clear"
\* for DELETE /session/:id, "health" for GET /health) or "responded"; status:
\* the HTTP status sent; code: the error code of the body sent; body: the
\* status fields of a health answer; failed: the call whose throw reached
\* the handler's catch; logAtStart: the session's stored log when the
\* request came.
NoChat == [stage |-> "none", sessionId |-> "", message |-> "",
           conversationHistory |-> <<>>, response |-> NoResponse, status |-> 0,
           code |-> "", body |-> <<>>, failed |-> "", logAtStart |-> <<>>]

\* A request slot that runs no processQuery call. stage: "search", "generate",
\* "done"; searched / generated: how searchChroma / model.generateContent ended
\* ("none", "ok", "threw"); generateContent: the calls of model.generateContent.
NoProc == [stage |-> "none", query |-> "", conversationHistory |-> <<>>,
           searchResults |-> EmptyResult, context |-> "", response |-> NoResponse,
           outcome |-> "none", searched |-> "none", generated |-> "none",
           generateContent |-> 0]

\* No prompt construction made yet.
NoGen == [searchResults |-> <<>>, query |-> "", conversationHistory |-> <<>>,
          context |-> "", prompt |-> "", sources |-> <<>>, stage |-> "none"]

\* App's initial state: the useState defaults (null is ""), before the mount
\* effect has run.
NoUI == [messages |-> <<>>, inputMessage |-> "", isLoading |-> FALSE,
         sessionId |-> "", error |-> "", isTyping |-> FALSE,
         sessionStats |-> [messageCount |-> 0], connectionStatus |-> "connecting",
         mounted |-> FALSE]

\* No request of the page in flight: chat holds the pending POST /chat
\* requests, newSession and health count the pending POST /session/new and
\* GET /health requests; sent and created count the /chat requests sent and
\* the sessions the server has created.
NoNet == [chat |-> {}, newSession |-> 0, health |-> 0, sent |-> 0, requested |-> 0,
          created |-> 0]

\* No buildContext call made yet.
NoBuild == [searchResults |-> <<>>, maxLength |-> 0, context |-> "", called |-> FALSE]

InitRequests ==
  /\ pc = [r \in Reqs |-> "idle"]
  /\ op = [r \in Reqs |-> ""]
  /\ rsid = [r \in Reqs |-> ""]
  /\ rmsg = [r \in Reqs |-> NoMessage]
  /\ hist = [r \in Reqs |-> <<>>]
  /\ rmax = [r \in Reqs |-> 0]
  /\ ret = [r \in Reqs |-> <<>>]
  /\ outcome = [r \in Reqs |-> "none"]
  /\ missed = [r \in Reqs |-> {}]
  /\ rquery = [r \in Reqs |-> ""]
  /\ rstale = [r \in Reqs |-> FALSE]
  /\ chat = [r \in Reqs |-> NoChat]
  /\ proc = [r \in Reqs |-> NoProc]

\* After construction: client = null, isConnected = false; the store holds what
\* earlier runs left in it.
InitWith(lens, answers) ==
  /\ isConnected = FALSE
  /\ clientOk = FALSE
  /\ redis = InitRedis(lens)
  /\ logical = [s \in Sessions |-> InitLog(s, lens[s])]
  /\ now = 0
  /\ nextId = 1
  /\ ui = NoUI
  /\ net = NoNet
  /\ lastWriter = [s \in Sessions |-> ""]
  /\ embedder = "unset"
  /\ chromaClient = "unset"
  /\ collection = answers
  /\ calls = NoCalls
  /\ written = [q \in Queries |-> NotWritten]
  /\ InitRequests

\* The vector store as the ingestion script left it.
InitCollection == [q \in Queries |-> <<<<"doc1">>>>]

Init == \E lens \in InitLens : InitWith(lens, InitCollection) /\ build = NoBuild /\ gen = NoGen

\* ------------------------------------------------- connection life cycle
\* connect(), called when the service is not connected (the server calls it
\* on start): a new client; isConnected = true once client.connect() and the
\* ping succeed, false when either throws.
Connect(ok) ==
  /\ ~isConnected
  /\ isConnected' = ok
  /\ clientOk' = ok
  /\ UNCHANGED <<redis, now, nextId, pc, op, rsid, rmsg, hist, rmax, ret, outcome,
                 logical, lastWriter, missed, searchVars, ragVars, uiVars>>

\* disconnect() (the server calls it on SIGTERM / SIGINT, while requests may
\* still be running): closes the client and clears the flag.
Disconnect ==
  /\ isConnected
  /\ clientOk
  /\ isConnected' = FALSE
  /\ clientOk' = FALSE
  /\ UNCHANGED <<redis, now, nextId, pc, op, rsid, rmsg, hist, rmax, ret, outcome,
                 logical, lastWriter, missed, searchVars, ragVars, uiVars>>

\* The connection to the server drops, or comes back (the client reconnects by
\* itself); the 'error' handler only logs, so isConnected keeps its value.
ClientFlip ==
  /\ isConnected
  /\ clientOk' = ~clientOk
  /\ UNCHANGED <<isConnected, redis, now, nextId, pc, op, rsid, rmsg, hist, rmax, ret,
                 outcome, logical, lastWriter, missed, searchVars, ragVars, uiVars>>

\* Time passes; Redis drops the keys whose TTL has elapsed.
Tick(d) ==
  /\ now + d <= MaxTicks * d
  /\ now' = now + d
  /\ redis' = [k \in DOMAIN redis |->
                 IF redis[k].present /\ redis[k].expireAt <= now + d
                 THEN NoKey ELSE redis[k]]
  /\ lastWriter' = [s \in Sessions |->
                      IF redis'[SessionKey(s)] = redis[SessionKey(s)]
                      THEN lastWriter[s] ELSE ""]
  /\ logical' = [s \in Sessions |->
                   IF redis'[SessionKey(s)].present THEN logical[s] ELSE <<>>]
  /\ UNCHANGED <<isConnected, clientOk, nextId, pc, op, rsid, rmsg, hist, rmax, ret,
                 outcome, missed, searchVars, ragVars, uiVars>>

\* Another client of the Redis server writes a value that is not JSON under a
\* session key; getSessionHistory then reads a text JSON.parse rejects.
ForeignSet(sessionId) ==
  /\ redis[SessionKey(sessionId)].val # NotJson
  /\ redis' = RedisSetEx(SessionKey(sessionId), SESSION_TTL, NotJson)
  /\ lastWriter' = [lastWriter EXCEPT ![sessionId] = ""]
  /\ logical' = [logical EXCEPT ![sessionId] = <<>>]
  /\ UNCHANGED <<isConnected, clientOk, now, nextId, pc, op, rsid, rmsg, hist, rmax, ret,
                 outcome, missed, searchVars, ragVars, uiVars>>

\* ------------------------------------------------------ session methods
\* The method of request r returns `value` (or throws, out = "error").
Finish(r, value, out) ==
  /\ pc' = [pc EXCEPT ![r] = "done"]
  /\ ret' = [ret EXCEPT ![r] = value]
  /\ outcome' = [outcome EXCEPT ![r] = out]

Start(r, method, sessionId) ==
  /\ pc[r] = "idle"
  /\ op' = [op EXCEPT ![r] = method]
  /\ rsid' = [rsid EXCEPT ![r] = sessionId]

\* A check of the session id that lets every id through.
MissingIdNever(sessionId) == FALSE

\* `!sessionId`: the id is undefined, null or ''.
MissingId(sessionId) == sessionId = ""

\* `throw new Error('Session ID is required')`, before anything else is done.
ThrowMissingId(r) ==
  /\ Finish(r, <<"Session ID is required">>, "error")
  /\ UNCHANGED <<isConnected, clientOk, redis, now, nextId, rmsg, hist, rmax, logical,
                 lastWriter, missed, searchVars, ragVars, uiVars>>

\* RedisService.addToSessionHistory(sessionId, message), up to its first
\* awaited command: the isConnected guard, then
\* `history = await this.getSessionHistory(sessionId)`.
AddToSessionHistory(r, sessionId, message) ==
  /\ rmsg' = [rmsg EXCEPT ![r] = message]
  /\ nextId' = nextId + 1
  /\ missed' = [missed EXCEPT ![r] = {}]
  /\ IF ~isConnected
     THEN /\ Finish(r, <<>>, "ok")
          /\ hist' = hist
     ELSE /\ pc' = [pc EXCEPT ![r] = "addStore"]
          /\ hist' = [hist EXCEPT ![r] = getSessionHistory(sessionId)]
          /\ UNCHANGED <<ret, outcome>>
  /\ UNCHANGED <<isConnected, clientOk, redis, now, rmax, logical, lastWriter, searchVars,
                 ragVars, uiVars>>

\* SessionService.addMessage: the id check, then addToSessionHistory with a
\* new message { role, content, metadata, id }.
AddBegin(r, sessionId, role, content) ==
  /\ Start(r, "add", sessionId)
  /\ IF MissingId(sessionId)
     THEN ThrowMissingId(r)
     ELSE AddToSessionHistory(r, sessionId, NewMessage(role, content))

\* SessionService.addMessage called with a metadata object.
AddBeginWith(r, sessionId, role, content, metadata) ==
  /\ Start(r, "add", sessionId)
  /\ IF MissingId(sessionId)
     THEN ThrowMissingId(r)
     ELSE AddToSessionHistory(r, sessionId, NewMessageWith(role, content, metadata))

\* addToSessionHistory called with a message that already carries a timestamp
\* of the caller's.
AddStamped(r, sessionId, role, content, timestamp) ==
  /\ Start(r, "add", sessionId)
  /\ AddToSessionHistory(r, sessionId,
                         [NewMessage(role, content) EXCEPT !.timestamp = timestamp])

\* An array with the stamped message put in front (unshift).
StoredHistoryFront(history, message) ==
  TrimHistory(<<WithTimestamp(message)>> \o history)

\* The array addToSessionHistory writes back: push the stamped message, keep
\* the last 50.
StoredHistory(history, message) ==
  TrimHistory(Append(history, WithTimestamp(message)))

\* A store that appends to the log as it is at the time of the write.
AddValueReload(r) == StoredHistory(getSessionHistory(rsid[r]), rmsg[r])

\* The value addToSessionHistory hands to setEx for request r.
AddValue(r) == StoredHistory(hist[r], rmsg[r])

\* A store whose catch returns [] instead of rethrowing.
AddStoreSwallow(r) ==
  /\ pc[r] = "addStore"
  /\ IF clientOk
     THEN /\ redis' = RedisSetEx(SessionKey(rsid[r]), SESSION_TTL,
                                 JSONStringify(AddValue(r)))
          /\ Finish(r, AddValue(r), "ok")
          /\ logical' = [logical EXCEPT
                           ![rsid[r]] = Append(@, WithTimestamp(rmsg[r]))]
          /\ lastWriter' = [lastWriter EXCEPT ![rsid[r]] = r]
          /\ missed' = [q \in Reqs |->
                          IF q # r /\ pc[q] = "addStore" /\ rsid[q] = rsid[r]
                          THEN missed[q] \cup {r} ELSE missed[q]]
     ELSE /\ Finish(r, <<>>, "ok")
          /\ UNCHANGED <<redis, logical, lastWriter, missed>>
  /\ UNCHANGED <<isConnected, clientOk, now, nextId, op, rsid, rmsg, hist, rmax, searchVars,
                 ragVars, uiVars>>

\* addToSessionHistory after the load: push, trim, `await this.client.setEx`,
\* return the trimmed array; a failing setEx is rethrown.
AddStore(r) ==
  /\ pc[r] = "addStore"
  /\ IF clientOk
     THEN /\ redis' = RedisSetEx(SessionKey(rsid[r]), SESSION_TTL,
                                 JSONStringify(AddValue(r)))
          /\ Finish(r, AddValue(r), "ok")
          /\ logical' = [logical EXCEPT
                           ![rsid[r]] = Append(@, WithTimestamp(rmsg[r]))]
          /\ lastWriter' = [lastWriter EXCEPT ![rsid[r]] = r]
          /\ missed' = [q \in Reqs |->
                          IF q # r /\ pc[q] = "addStore" /\ rsid[q] = rsid[r]
                          THEN missed[q] \cup {r} ELSE missed[q]]
     ELSE /\ Finish(r, <<>>, "error")
          /\ UNCHANGED <<redis, logical, lastWriter, missed>>
  /\ UNCHANGED <<isConnected, clientOk, now, nextId, op, rsid, rmsg, hist, rmax, searchVars,
                 ragVars, uiVars>>

\* clearSession: false when not connected or when DEL throws; otherwise
\* whether DEL removed a key.
ClearSession(r, sessionId) ==
  /\ Start(r, "clear", sessionId)
  /\ IF MissingId(sessionId)
     THEN ThrowMissingId(r)
     ELSE /\ IF isConnected /\ clientOk
             THEN /\ redis' = RedisDel(SessionKey(sessionId))
                  /\ Finish(r, RedisDelCount(SessionKey(sessionId)) > 0, "ok")
                  /\ lastWriter' = [lastWriter EXCEPT
                                      ![sessionId] =
                                         IF RedisDelCount(SessionKey(sessionId)) > 0
                                         THEN "" ELSE @]
                  /\ logical' = [logical EXCEPT ![sessionId] = <<>>]
             ELSE /\ Finish(r, FALSE, "ok")
                  /\ UNCHANGED <<redis, lastWriter, logical>>
          /\ UNCHANGED <<isConnected, clientOk, now, nextId, rmsg, hist, rmax, missed,
                         searchVars, ragVars, uiVars>>

\* SessionService.getHistory
GetHistory(r, sessionId) ==
  /\ Start(r, "history", sessionId)
  /\ IF MissingId(sessionId)
     THEN ThrowMissingId(r)
     ELSE /\ Finish(r, getSessionHistory(sessionId), "ok")
          /\ UNCHANGED <<isConnected, clientOk, redis, now, nextId, rmsg, hist, rmax,
                         logical, lastWriter, missed, searchVars, ragVars, uiVars>>

\* The null of startTime and lastActivity.
NullTime == -2

\* Statistics whose messageCount counts the messages of every role.
SessionStatsAll(history) ==
  IF Len(history) = 0
  THEN [messageCount |-> 0, startTime |-> NullTime, lastActivity |-> NullTime]
  ELSE [messageCount |-> Len(history),
        totalMessages |-> Len(history),
        startTime |-> history[1].timestamp,
        lastActivity |-> history[Len(history)].timestamp]

\* getSessionStats on the history it has read: zero and nulls for an empty
\* history, else the number of user messages, the number of messages and the
\* first and last timestamps.
SessionStats(history) ==
  IF Len(history) = 0
  THEN [messageCount |-> 0, startTime |-> NullTime, lastActivity |-> NullTime]
  ELSE [messageCount |-> Cardinality({i \in 1..Len(history) : history[i].role = "user"}),
        totalMessages |-> Len(history),
        startTime |-> history[1].timestamp,
        lastActivity |-> history[Len(history)].timestamp]

\* SessionService.getSessionStats: getHistory (which throws without an id),
\* then the statistics of the history.
GetSessionStats(r, sessionId) ==
  /\ Start(r, "stats", sessionId)
  /\ IF MissingId(sessionId)
     THEN ThrowMissingId(r)
     ELSE /\ Finish(r, SessionStats(getSessionHistory(sessionId)), "ok")
          /\ UNCHANGED <<isConnected, clientOk, redis, now, nextId, rmsg, hist, rmax,
                         logical, lastWriter, missed, searchVars, ragVars, uiVars>>

\* SessionService.sessionExists: `history.length > 0`
SessionExists(r, sessionId) ==
  /\ Start(r, "exists", sessionId)
  /\ IF MissingId(sessionId)
     THEN ThrowMissingId(r)
     ELSE /\ Finish(r, Len(getSessionHistory(sessionId)) > 0, "ok")
          /\ UNCHANGED <<isConnected, clientOk, redis, now, nextId, rmsg, hist, rmax,
                         logical, lastWriter, missed, searchVars, ragVars, uiVars>>

\* recentMessages.map(msg => ({ role: msg.role, content: msg.content }))
FormatContext(messages) ==
  [i \in 1..Len(messages) |->
     [role |-> messages[i].role, content |-> messages[i].content]]

\* A context made of the whole history.
ContextOfAll(history, maxMessages) == FormatContext(history)

\* getContextForRAG's result on a history: history.slice(-maxMessages), formatted.
ContextOf(history, maxMessages) == FormatContext(JsSlice(history, -maxMessages))

\* SessionService.getContextForRAG(sessionId, maxMessages)
GetContextForRAG(r, sessionId, maxMessages) ==
  /\ Start(r, "context", sessionId)
  /\ IF MissingId(sessionId)
     THEN ThrowMissingId(r)
     ELSE /\ hist' = [hist EXCEPT ![r] = getSessionHistory(sessionId)]
          /\ rmax' = [rmax EXCEPT ![r] = maxMessages]
          /\ Finish(r, ContextOf(getSessionHistory(sessionId), maxMessages), "ok")
          /\ UNCHANGED <<isConnected, clientOk, redis, now, nextId, rmsg, logical,
                         lastWriter, missed, searchVars, ragVars, uiVars>>

\* The locals of the method request r ran are dropped.
Release(r) ==
  /\ pc' = [pc EXCEPT ![r] = "idle"]
  /\ op' = [op EXCEPT ![r] = ""]
  /\ rsid' = [rsid EXCEPT ![r] = ""]
  /\ rmsg' = [rmsg EXCEPT ![r] = NoMessage]
  /\ hist' = [hist EXCEPT ![r] = <<>>]
  /\ rmax' = [rmax EXCEPT ![r] = 0]
  /\ ret' = [ret EXCEPT ![r] = <<>>]
  /\ outcome' = [outcome EXCEPT ![r] = "none"]
  /\ missed' = [missed EXCEPT ![r] = {}]
  /\ rquery' = [rquery EXCEPT ![r] = ""]
  /\ rstale' = [rstale EXCEPT ![r] = FALSE]

\* The caller takes the result; the request slot is free again.
Return(r) ==
  /\ pc[r] = "done"
  /\ Release(r)
  /\ UNCHANGED <<isConnected, clientOk, redis, now, nextId, logical, lastWriter,
                 embedder, chromaClient, collection, calls, written, ragVars, uiVars>>

\* ------------------------------------------- connect() and disconnect()
\* connect(), called when the service is not connected, up to its first
\* await: `this.client = createRedisClient()`, a new client that is not ready
\* yet, then `await this.client.connect()`.
ConnectBegin(r) ==
  /\ pc[r] = "idle"
  /\ ~isConnected
  /\ op' = [op EXCEPT ![r] = "connect"]
  /\ pc' = [pc EXCEPT ![r] = "connecting"]
  /\ clientOk' = FALSE
  /\ UNCHANGED <<isConnected, redis, now, nextId, rsid, rmsg, hist, rmax, ret, outcome,
                 logical, lastWriter, missed, searchVars, ragVars, uiVars>>

\* client.connect() settles: `this.isConnected = true` and on to the ping, or
\* the catch: `this.isConnected = false; throw error`.
ConnectDone(r, ok) ==
  /\ pc[r] = "connecting"
  /\ IF ok
     THEN /\ isConnected' = TRUE
          /\ clientOk' = TRUE
          /\ pc' = [pc EXCEPT ![r] = "pinging"]
          /\ UNCHANGED <<ret, outcome>>
     ELSE /\ isConnected' = FALSE
          /\ clientOk' = FALSE
          /\ Finish(r, <<>>, "error")
  /\ UNCHANGED <<redis, now, nextId, op, rsid, rmsg, hist, rmax, logical, lastWriter,
                 missed, searchVars, ragVars, uiVars>>

\* A catch that rethrows without clearing the flag.
PingKeepFlag(r, ok, ready) ==
  /\ pc[r] = "pinging"
  /\ IF ok
     THEN /\ Finish(r, <<"client">>, "ok")
          /\ UNCHANGED <<isConnected, clientOk>>
     ELSE /\ clientOk' = ready
          /\ Finish(r, <<>>, "error")
          /\ UNCHANGED isConnected
  /\ UNCHANGED <<redis, now, nextId, op, rsid, rmsg, hist, rmax, logical, lastWriter,
                 missed, searchVars, ragVars, uiVars>>

\* `await this.client.ping()` settles: connect() returns the client, or the
\* catch clears the flag and rethrows; after a failed ping the client may or
\* may not still be ready.
Ping(r, ok, ready) ==
  /\ pc[r] = "pinging"
  /\ IF ok
     THEN /\ Finish(r, <<"client">>, "ok")
          /\ UNCHANGED <<isConnected, clientOk>>
     ELSE /\ isConnected' = FALSE
          /\ clientOk' = ready
          /\ Finish(r, <<>>, "error")
  /\ UNCHANGED <<redis, now, nextId, op, rsid, rmsg, hist, rmax, logical, lastWriter,
                 missed, searchVars, ragVars, uiVars>>

\* disconnect(): nothing without a client or with the flag down; else
\* `await this.client.disconnect()`, which clears the flag when it succeeds
\* and is logged and swallowed when it throws.
DisconnectCall(r, ok) ==
  /\ pc[r] = "idle"
  /\ op' = [op EXCEPT ![r] = "disconnect"]
  /\ IF isConnected
     THEN IF ok
          THEN /\ isConnected' = FALSE
               /\ clientOk' = FALSE
               /\ Finish(r, <<"closed">>, "ok")
          ELSE /\ Finish(r, <<"threw">>, "ok")
               /\ UNCHANGED <<isConnected, clientOk>>
     ELSE /\ Finish(r, <<>>, "ok")
          /\ UNCHANGED <<isConnected, clientOk>>
  /\ UNCHANGED <<redis, now, nextId, rsid, rmsg, hist, rmax, logical, lastWriter,
                 missed, searchVars, ragVars, uiVars>>

\* ------------------------------------------------------ retrieval client
\* getCachedQuery: null (modelled as <<>>) when not connected, when GET throws
\* or when the key is absent; the parsed value otherwise.
getCachedQuery(queryHash) ==
  IF ~isConnected THEN <<>>
  ELSE IF ~clientOk THEN <<>>
  ELSE LET cached == RedisGet(QueryKey(queryHash))
       IN  IF cached # <<>> THEN JSONParse(cached) ELSE <<>>

\* RedisService.getCachedQuery called on its own, with the hash of a query.
GetCachedQuery(r, query) ==
  /\ pc[r] = "idle"
  /\ op' = [op EXCEPT ![r] = "cached"]
  /\ rquery' = [rquery EXCEPT ![r] = query]
  /\ Finish(r, getCachedQuery(QueryHash(query)), "ok")
  /\ UNCHANGED <<isConnected, clientOk, redis, now, sessionVars, embedder,
                 chromaClient, collection, calls, rstale, written, ragVars, uiVars>>

\* searchChroma up to `await redisService.getCachedQuery(queryHash)`: a hit is
\* returned at once, a miss goes on to the embedder.
SearchBegin(r, query) ==
  /\ pc[r] = "idle"
  /\ op' = [op EXCEPT ![r] = "search"]
  /\ rquery' = [rquery EXCEPT ![r] = query]
  /\ calls' = [calls EXCEPT !.started = @ + 1]
  /\ LET cached == getCachedQuery(QueryHash(query))
     IN  IF cached # <<>>
         THEN Finish(r, cached, "ok")
         ELSE /\ pc' = [pc EXCEPT ![r] = "loadEmbedder"]
              /\ UNCHANGED <<ret, outcome>>
  /\ UNCHANGED <<isConnected, clientOk, redis, now, sessionVars, embedder,
                 chromaClient, collection, rstale, written, ragVars, uiVars>>

\* healthCheck: loadEmbedder(), then getCollection().
HealthBegin(r) ==
  /\ pc[r] = "idle"
  /\ op' = [op EXCEPT ![r] = "health"]
  /\ pc' = [pc EXCEPT ![r] = "loadEmbedder"]
  /\ calls' = [calls EXCEPT !.started = @ + 1]
  /\ UNCHANGED <<isConnected, clientOk, redis, now, sessionVars, ret, outcome,
                 embedder, chromaClient, collection, rquery, rstale, written, ragVars, uiVars>>

\* Where a caller of loadEmbedder goes on once it has the embedder.
AfterLoad(r) == IF op[r] = "search" THEN "embed" ELSE "getCollection"

\* loadEmbedder up to its await: `if (!embedder)` starts pipeline(...); an
\* embedder already set is returned as it is.
LoadEmbedder(r) ==
  /\ pc[r] = "loadEmbedder"
  /\ IF embedder = "unset"
     THEN /\ calls' = [calls EXCEPT !.pipeline = @ + 1]
          /\ pc' = [pc EXCEPT ![r] = "loading"]
     ELSE /\ calls' = calls
          /\ pc' = [pc EXCEPT ![r] = AfterLoad(r)]
  /\ UNCHANGED <<isConnected, clientOk, redis, now, sessionVars, op, ret, outcome,
                 embedder, chromaClient, collection, rquery, rstale, written, ragVars, uiVars>>

\* An awaited model or vector-store call of request r throws: searchChroma's
\* catch throws 'Failed to search knowledge base'; healthCheck's catch returns
\* the unhealthy status.
Throws(r) ==
  IF op[r] = "search" THEN Finish(r, <<>>, "error")
  ELSE Finish(r, <<"unhealthy">>, "ok")

\* pipeline(...) settles: `embedder = await pipeline(...)`, return embedder;
\* when it rejects the embedder stays unset.
LoadDone(r, ok) ==
  /\ pc[r] = "loading"
  /\ IF ok
     THEN /\ embedder' = "loaded"
          /\ pc' = [pc EXCEPT ![r] = AfterLoad(r)]
          /\ UNCHANGED <<ret, outcome>>
     ELSE /\ Throws(r)
          /\ UNCHANGED embedder
  /\ UNCHANGED <<isConnected, clientOk, redis, now, sessionVars, op,
                 chromaClient, collection, calls, rquery, rstale, written, ragVars, uiVars>>

\* An embedding step whose failure is turned into an empty result.
EmbedSwallow(r, ok) ==
  /\ pc[r] = "embed"
  /\ calls' = [calls EXCEPT !.embed = @ + 1]
  /\ IF ok
     THEN /\ pc' = [pc EXCEPT ![r] = "getCollection"]
          /\ UNCHANGED <<ret, outcome>>
     ELSE Finish(r, EmptyResult, "ok")
  /\ UNCHANGED <<isConnected, clientOk, redis, now, sessionVars, op,
                 embedder, chromaClient, collection, rquery, rstale, written, ragVars, uiVars>>

\* `emb = await embedder(query, ...)`
Embed(r, ok) ==
  /\ pc[r] = "embed"
  /\ calls' = [calls EXCEPT !.embed = @ + 1]
  /\ IF ok
     THEN /\ pc' = [pc EXCEPT ![r] = "getCollection"]
          /\ UNCHANGED <<ret, outcome>>
     ELSE Throws(r)
  /\ UNCHANGED <<isConnected, clientOk, redis, now, sessionVars, op,
                 embedder, chromaClient, collection, rquery, rstale, written, ragVars, uiVars>>

\* getCollection: the ChromaClient is created when it is not set yet; the
\* collection handle is fetched from it on every call. healthCheck ends here.
GetCollection(r, ok) ==
  /\ pc[r] = "getCollection"
  /\ chromaClient' = "created"
  /\ calls' = [calls EXCEPT
                 !.newClient = IF chromaClient = "unset" THEN @ + 1 ELSE @,
                 !.getCollection = @ + 1]
  /\ IF ~ok THEN Throws(r)
     ELSE IF op[r] = "search"
     THEN /\ pc' = [pc EXCEPT ![r] = "query"]
          /\ UNCHANGED <<ret, outcome>>
     ELSE Finish(r, <<"healthy">>, "ok")
  /\ UNCHANGED <<isConnected, clientOk, redis, now, sessionVars, op, embedder,
                 collection, rquery, rstale, written, ragVars, uiVars>>

\* `results = await collection.query(...)`: the answer the vector store gives
\* now, or a throw.
Query(r, ok) ==
  /\ pc[r] = "query"
  /\ calls' = [calls EXCEPT !.query = @ + 1]
  /\ rstale' = [rstale EXCEPT ![r] = FALSE]
  /\ IF ok
     THEN /\ ret' = [ret EXCEPT ![r] = collection[rquery[r]]]
          /\ pc' = [pc EXCEPT ![r] = "cacheQuery"]
          /\ UNCHANGED outcome
     ELSE Throws(r)
  /\ UNCHANGED <<isConnected, clientOk, redis, now, sessionVars, op,
                 embedder, chromaClient, collection, rquery, written, ragVars, uiVars>>

\* The key searchChroma writes its result under.
CacheKey(query) == QueryKey(QueryHash(query))

\* A TTL of half an hour, and one of two hours.
CacheTTLShort == QUERY_TTL \div 2
CacheTTLLong == QUERY_TTL * 2

\* The TTL searchChroma passes to cacheQuery.
CacheTTL == QUERY_TTL

\* A cacheQuery that lets the failure of the write reach searchChroma's catch.
CacheQueryRethrow(r) ==
  /\ pc[r] = "cacheQuery"
  /\ IF isConnected /\ clientOk
     THEN /\ redis' = RedisSetEx(CacheKey(rquery[r]), CacheTTL, JSONStringify(ret[r]))
          /\ written' = [written EXCEPT
                           ![rquery[r]] = [at |-> now, val |-> ret[r],
                                           stale |-> rstale[r]]]
          /\ Finish(r, ret[r], "ok")
     ELSE /\ UNCHANGED <<redis, written>>
          /\ Finish(r, <<>>, "error")
  /\ UNCHANGED <<isConnected, clientOk, now, sessionVars, op, embedder,
                 chromaClient, collection, calls, rquery, rstale, ragVars, uiVars>>

\* `await redisService.cacheQuery(queryHash, results, 3600)`, `return results`:
\* nothing is written when not connected, and a failing setEx is swallowed.
CacheQuery(r) ==
  /\ pc[r] = "cacheQuery"
  /\ IF isConnected /\ clientOk
     THEN /\ redis' = RedisSetEx(CacheKey(rquery[r]), CacheTTL, JSONStringify(ret[r]))
          /\ written' = [written EXCEPT
                           ![rquery[r]] = [at |-> now, val |-> ret[r],
                                           stale |-> rstale[r]]]
     ELSE UNCHANGED <<redis, written>>
  /\ Finish(r, ret[r], "ok")
  /\ UNCHANGED <<isConnected, clientOk, now, sessionVars, op, embedder,
                 chromaClient, collection, calls, rquery, rstale, ragVars, uiVars>>

\* The ingestion script is run again: the vector store answers a query with
\* other passages than before.
VectorStoreUpdate(query, answer) ==
  /\ answer # collection[query]
  /\ collection' = [collection EXCEPT ![query] = answer]
  /\ rstale' = [r \in Reqs |->
                  IF pc[r] = "cacheQuery" /\ rquery[r] = query THEN TRUE
                  ELSE rstale[r]]
  /\ written' = [written EXCEPT
                   ![query] = IF @.at >= 0 THEN [@ EXCEPT !.stale = TRUE] ELSE @]
  /\ UNCHANGED <<isConnected, clientOk, redis, now, sessionVars, pc, op, ret,
                 outcome, embedder, chromaClient, calls, rquery, ragVars, uiVars>>

\* --------------------------------------------------------- buildContext
\* A raw search result of the vector store (collection.query with one query
\* embedding): documents, metadatas and distances each hold one array, with one
\* entry per passage; the distances may be missing.
SearchResult(passages) ==
  [documents |-> <<[i \in 1..Len(passages) |-> passages[i].text]>>,
   metadatas |-> <<[i \in 1..Len(passages) |->
                     [title |-> passages[i].title, source |-> passages[i].source,
                      url |-> passages[i].url]]>>,
   distances |-> <<[i \in 1..Len(passages) |-> passages[i].distance]>>]

\* `searchResults.field?.[0] || []`
FirstOf(field) == IF Len(field) >= 1 THEN field[1] ELSE <<>>

\* `array[i]` (0-based i - 1): undefined past the end.
DistanceAt(distances, i) == IF i <= Len(distances) THEN distances[i] ELSE Undefined

\* A filter that skips nothing.
TooFarNever(distance) == FALSE

\* `if (distance > 0.8) continue`
TooFar(distance) == JsGreater(distance, DISTANCE_CUTOFF)

\* The template literal docContext: a newline, four labelled lines, a separator.
DocContext(meta, doc) ==
  "\nTitle: " \o OrElse(meta.title, "Unknown") \o
  "\nSource: " \o OrElse(meta.source, "Unknown") \o
  "\nURL: " \o OrElse(meta.url, "N/A") \o
  "\nContent: " \o doc \o
  "\n---"

\* A budget test on the block alone, not on the running total.
OverBudgetBlockOnly(currentLength, blockLength, maxLength) == blockLength > maxLength

\* `if (currentLength + docContext.length > maxLength) break`
OverBudget(currentLength, blockLength, maxLength) ==
  currentLength + blockLength > maxLength

\* A loop that passes over a block that does not fit (continue) and goes on.
RECURSIVE BuildLoopSkip(_, _, _, _, _, _, _)
BuildLoopSkip(docs, metadatas, distances, i, context, currentLength, maxLength) ==
  IF i > Len(docs) THEN context
  ELSE IF TooFar(DistanceAt(distances, i))
       THEN BuildLoopSkip(docs, metadatas, distances, i + 1, context, currentLength,
                          maxLength)
  ELSE LET docContext == DocContext(metadatas[i], docs[i])
       IN  IF OverBudget(currentLength, Len(docContext), maxLength)
           THEN BuildLoopSkip(docs, metadatas, distances, i + 1, context,
                              currentLength, maxLength)
           ELSE BuildLoopSkip(docs, metadatas, distances, i + 1,
                              context \o docContext,
                              currentLength + Len(docContext), maxLength)

\* The for loop of buildContext from index i on, with the context built so far.
RECURSIVE BuildLoop(_, _, _, _, _, _, _)
BuildLoop(docs, metadatas, distances, i, context, currentLength, maxLength) ==
  IF i > Len(docs) THEN context
  ELSE IF TooFar(DistanceAt(distances, i))
       THEN BuildLoop(docs, metadatas, distances, i + 1, context, currentLength,
                      maxLength)
  ELSE LET docContext == DocContext(metadatas[i], docs[i])
       IN  IF OverBudget(currentLength, Len(docContext), maxLength)
           THEN context
           ELSE BuildLoop(docs, metadatas, distances, i + 1,
                          context \o docContext,
                          currentLength + Len(docContext), maxLength)

\* buildContext(searchResults, maxLength)
buildContext(searchResults, maxLength) ==
  Trim(BuildLoop(FirstOf(searchResults.documents),
                 FirstOf(searchResults.metadatas),
                 FirstOf(searchResults.distances), 1, "", 0, maxLength))

\* The passages buildContext is tried on: up to two, with and without a title,
\* each at a distance below, at and above the cutoff or without a distance.
\* The passage texts differ by position.
PassagesAt(i) ==
  {[text |-> x, title |-> ti, source |-> "", url |-> "u", distance |-> d] :
     x \in (IF i = 1 THEN {"", "a b"} ELSE {"c", " dd "}),
     ti \in {"", "T"},
     d \in {DISTANCE_CUTOFF, DISTANCE_CUTOFF + 1, Undefined}}

BuildInputs ==
  {SearchResult(<<>>)}
    \cup {SearchResult(<<p>>) : p \in PassagesAt(1)}
    \cup {SearchResult(<<p, q>>) : p \in PassagesAt(1), q \in PassagesAt(2)}

\* A buildContext call with arguments drawn from the input sets.
InitBuild ==
  /\ InitWith([s \in Sessions |-> 0], InitCollection)
  /\ \E sr \in BuildInputs, n \in 0..MaxChars :
       build = [searchResults |-> sr, maxLength |-> n, context |-> "",
                called |-> FALSE]
  /\ gen = NoGen

\* A call that takes the first passage out of the result it is given
\* (docs.shift() and the like).
ArgumentAfterShift(searchResults) ==
  [documents |-> <<JsSlice(FirstOf(searchResults.documents), 1)>>,
   metadatas |-> <<JsSlice(FirstOf(searchResults.metadatas), 1)>>,
   distances |-> <<JsSlice(FirstOf(searchResults.distances), 1)>>]

\* The caller's search result after a buildContext call: the function only
\* reads documents, metadatas and distances, so the object is as it was.
ArgumentAfter(searchResults) == searchResults

\* The call returns its text.
BuildContext ==
  /\ ~build.called
  /\ build' = [build EXCEPT
                 !.context = buildContext(build.searchResults, build.maxLength),
                 !.searchResults = ArgumentAfter(build.searchResults),
                 !.called = TRUE]
  /\ UNCHANGED <<isConnected, clientOk, redis, now, pc, op, ret, outcome, sessionVars,
                 searchVars, chat, proc, gen, uiVars>>

NextBuild == BuildContext

SpecBuild == InitBuild /\ [][NextBuild]_vars

\* Two buildContext calls on the same search result object with the same
\* budget: `given` is the result as it was handed over, `previous` the text
\* of the first call, `again` whether the second call has returned.
InitTwice ==
  /\ InitWith([s \in Sessions |-> 0], InitCollection)
  /\ \E sr \in BuildInputs, n \in 0..MaxChars :
       build = [searchResults |-> sr, maxLength |-> n, context |-> "",
                called |-> FALSE, given |-> sr, previous |-> "", again |-> FALSE]
  /\ gen = NoGen

\* The second call returns its text.
BuildContextAgain ==
  /\ build.called
  /\ ~build.again
  /\ build' = [build EXCEPT
                 !.previous = build.context,
                 !.context = buildContext(build.searchResults, build.maxLength),
                 !.searchResults = ArgumentAfter(build.searchResults),
                 !.again = TRUE]
  /\ UNCHANGED <<isConnected, clientOk, redis, now, pc, op, ret, outcome, sessionVars,
                 searchVars, chat, proc, gen, uiVars>>

NextTwice == BuildContext \/ BuildContextAgain

SpecTwice == InitTwice /\ [][NextTwice]_vars

\* --------------------------------------------------------- processQuery
\* The lines of a text: text.split('\n'), from position i on, `line` being
\* the line read so far.
RECURSIVE SplitLines(_, _, _)
SplitLines(text, i, line) ==
  LET breaks == {k \in i..Len(text) : SubSeq(text, k, k) = "\n"}
  IN  IF breaks = {} THEN <<line \o SubSeq(text, i, Len(text))>>
      ELSE LET k == CHOOSE b \in breaks : \A c \in breaks : b <= c
           IN  <<line \o SubSeq(text, i, k - 1)>> \o SplitLines(text, k + 1, "")

\* line.startsWith(prefix)
StartsWith(line, prefix) ==
  Len(line) >= Len(prefix) /\ SubSeq(line, 1, Len(prefix)) = prefix

\* line.replace(prefix, '') on a line that starts with the prefix.
WithoutPrefix(line, prefix) == SubSeq(line, Len(prefix) + 1, Len(line))

\* No field of currentSource set (an unset field and '' are both falsy).
NoSource == [title |-> "", source |-> "", url |-> ""]

\* The loop of extractSources over the lines from i on.
RECURSIVE SourcesLoop(_, _, _, _)
SourcesLoop(lines, i, currentSource, sources) ==
  IF i > Len(lines) THEN sources
  ELSE LET line == lines[i]
       IN  IF StartsWith(line, "Title: ")
           THEN SourcesLoop(lines, i + 1,
                  [currentSource EXCEPT !.title = WithoutPrefix(line, "Title: ")],
                  sources)
           ELSE IF StartsWith(line, "Source: ")
           THEN SourcesLoop(lines, i + 1,
                  [currentSource EXCEPT !.source = WithoutPrefix(line, "Source: ")],
                  sources)
           ELSE IF StartsWith(line, "URL: ")
           THEN LET full == [currentSource EXCEPT !.url = WithoutPrefix(line, "URL: ")]
                IN  SourcesLoop(lines, i + 1, NoSource,
                      IF full.title # "" /\ full.source # ""
                      THEN Append(sources, full) ELSE sources)
           ELSE SourcesLoop(lines, i + 1, currentSource, sources)

\* extractSources(context)
extractSources(context) == SourcesLoop(SplitLines(context, 1, ""), 1, NoSource, <<>>)

NOT_FOUND_MESSAGE ==
  "I couldn't find any relevant information in the news database to answer your question. Please try rephrasing your query or ask about different topics."

NOT_RELATED_MESSAGE ==
  "I found some potentially relevant articles, but they don't seem closely related to your question. Could you try asking about something more specific?"

\* The fixed answers of processQuery: { content, sources: [], tokensUsed: null }.
FixedResponse(content) ==
  [content |-> content, sources |-> <<>>, tokensUsed |-> Null, set |-> TRUE]

\* What the hosted LLM may answer, and the usage metadata it may report.
Answers == {"According to T1 ..."}
Usages == {Null, 42}

\* processQuery(query, conversationHistory) is called: up to the call of
\* searchChroma.
ProcessBegin(r, query, conversationHistory) ==
  /\ pc[r] = "idle"
  /\ proc[r].stage = "none"
  /\ proc' = [proc EXCEPT ![r] = [NoProc EXCEPT !.stage = "search", !.query = query,
                                    !.conversationHistory = conversationHistory]]
  /\ calls' = [calls EXCEPT !.processQuery = @ + 1]
  /\ UNCHANGED <<isConnected, clientOk, redis, now, sessionVars, pc, op, ret, outcome,
                 embedder, chromaClient, collection, rquery, rstale, written, chat,
                 build, gen, uiVars>>

\* `await searchChroma(query)`: the call, up to its first await.
ProcessSearch(r) ==
  /\ proc[r].stage = "search"
  /\ SearchBegin(r, proc[r].query)

\* A test for zero documents that never fires.
ZeroDocumentsNever(searchResults) == FALSE

\* `!searchResults.documents?.[0]?.length`
ZeroDocuments(searchResults) == Len(FirstOf(searchResults.documents)) = 0

\* A test for an empty context that never fires.
NoContextNever(context) == FALSE

\* `!context`
NoContext(context) == context = ""

\* searchChroma has settled: a throw is rethrown by processQuery's catch;
\* zero documents and an empty context return the fixed answers; otherwise
\* generateResponse is called with the built context.
AfterSearch(r) ==
  /\ proc[r].stage = "search"
  /\ pc[r] = "done"
  /\ IF outcome[r] = "error"
     THEN proc' = [proc EXCEPT ![r].stage = "done", ![r].searched = "threw",
                               ![r].outcome = "error"]
     ELSE LET searchResults == ret[r]
              context == buildContext(searchResults, MAX_CONTEXT_LENGTH)
          IN  IF ZeroDocuments(searchResults)
              THEN proc' = [proc EXCEPT
                              ![r].stage = "done", ![r].searched = "ok",
                              ![r].searchResults = searchResults,
                              ![r].response = FixedResponse(NOT_FOUND_MESSAGE),
                              ![r].outcome = "ok"]
              ELSE IF NoContext(context)
              THEN proc' = [proc EXCEPT
                              ![r].stage = "done", ![r].searched = "ok",
                              ![r].searchResults = searchResults,
                              ![r].context = context,
                              ![r].response = FixedResponse(NOT_RELATED_MESSAGE),
                              ![r].outcome = "ok"]
              ELSE proc' = [proc EXCEPT
                              ![r].stage = "generate", ![r].searched = "ok",
                              ![r].searchResults = searchResults,
                              ![r].context = context]
  /\ pc' = [pc EXCEPT ![r] = "idle"]
  /\ op' = [op EXCEPT ![r] = ""]
  /\ ret' = [ret EXCEPT ![r] = <<>>]
  /\ outcome' = [outcome EXCEPT ![r] = "none"]
  /\ rquery' = [rquery EXCEPT ![r] = ""]
  /\ rstale' = [rstale EXCEPT ![r] = FALSE]
  /\ UNCHANGED <<isConnected, clientOk, redis, now, sessionVars, embedder,
                 chromaClient, collection, calls, written, chat, build, gen, uiVars>>

\* A generateResponse that calls the model a second time when the first call throws.
GenerateResponseRetry(r, ok, text, usage) ==
  /\ proc[r].stage = "generate"
  /\ IF ok
     THEN proc' = [proc EXCEPT
                     ![r].stage = "done", ![r].generated = "ok",
                     ![r].generateContent = @ + 1,
                     ![r].response = [content |-> text,
                                      sources |-> extractSources(proc[r].context),
                                      tokensUsed |-> usage, set |-> TRUE],
                     ![r].outcome = "ok"]
     ELSE proc' = [proc EXCEPT
                     ![r].stage = "done", ![r].generated = "threw",
                     ![r].generateContent = @ + 2,
                     ![r].outcome = "error"]
  /\ UNCHANGED <<isConnected, clientOk, redis, now, sessionVars, pc, op, ret, outcome,
                 searchVars, chat, build, gen, uiVars>>

\* generateResponse: one `await model.generateContent(prompt)`; its text, the
\* sources parsed from the context and the usage metadata are returned; a throw
\* is turned into 'Failed to generate response', which processQuery rethrows.
GenerateResponse(r, ok, text, usage) ==
  /\ proc[r].stage = "generate"
  /\ IF ok
     THEN proc' = [proc EXCEPT
                     ![r].stage = "done", ![r].generated = "ok",
                     ![r].generateContent = @ + 1,
                     ![r].response = [content |-> text,
                                      sources |-> extractSources(proc[r].context),
                                      tokensUsed |-> usage, set |-> TRUE],
                     ![r].outcome = "ok"]
     ELSE proc' = [proc EXCEPT
                     ![r].stage = "done", ![r].generated = "threw",
                     ![r].generateContent = @ + 1,
                     ![r].outcome = "error"]
  /\ UNCHANGED <<isConnected, clientOk, redis, now, sessionVars, pc, op, ret, outcome,
                 searchVars, chat, build, gen, uiVars>>

\* The caller of processQuery takes the result (or the error).
ProcessReturn(r) ==
  /\ proc[r].stage = "done"
  /\ proc' = [proc EXCEPT ![r] = NoProc]
  /\ UNCHANGED <<isConnected, clientOk, redis, now, sessionVars, pc, op, ret, outcome,
                 searchVars, chat, build, gen, uiVars>>

\* A passage as the vector store returns it.
Passage(text, title, distance) ==
  [text |-> text, title |-> title, source |-> "news", url |-> "http://n/" \o title,
   distance |-> distance]

\* What the vector store may hold for a query: nothing; one passage beyond the
\* cutoff; a passage at the cutoff followed by one beyond it; one passage
\* within the cutoff whose block is longer than the context budget.
AnswerResults ==
  { EmptyResult,
    SearchResult(<<Passage("far", "T2", DISTANCE_CUTOFF + 1)>>),
    SearchResult(<<Passage("near", "T1", DISTANCE_CUTOFF),
                   Passage("far", "T2", DISTANCE_CUTOFF + 1)>>),
    SearchResult(<<Passage(Repeat("x", MAX_CONTEXT_LENGTH), "T1", DISTANCE_CUTOFF)>>) }

\* ------------------------------------------- generateResponse's prompt
\* Every earlier turn, with no limit.
ConversationTurnsAll(conversationHistory) == conversationHistory

\* `conversationHistory.slice(-3)`
ConversationTurns(conversationHistory) == JsSlice(conversationHistory, -3)

\* `${msg.role === 'user' ? 'User' : 'Assistant'}: ${msg.content}`
TurnLine(msg) ==
  (IF msg.role = "user" THEN "User" ELSE "Assistant") \o ": " \o msg.content

\* lines.join('\n') from index i on.
RECURSIVE JoinLines(_, _)
JoinLines(lines, i) ==
  IF i > Len(lines) THEN ""
  ELSE IF i = Len(lines) THEN lines[i]
  ELSE lines[i] \o "\n" \o JoinLines(lines, i + 1)

\* conversationContext: empty without history, else a heading and one line
\* per retained turn.
ConversationContext(conversationHistory) ==
  IF Len(conversationHistory) > 0
  THEN LET turns == ConversationTurns(conversationHistory)
       IN  "\n\nPrevious conversation:\n"
             \o JoinLines([i \in 1..Len(turns) |-> TurnLine(turns[i])], 1)
  ELSE ""

\* The template literal `prompt`.
BuildPrompt(query, context, conversationHistory) ==
  "You are a helpful news assistant. Answer the user's question using ONLY the provided news context. Be accurate, concise, and cite sources when possible."
  \o "\n\nNews Context:\n" \o context
  \o "\n" \o ConversationContext(conversationHistory)
  \o "\n\nUser Question: " \o query
  \o "\n\nInstructions:"
  \o "\n- Only use information from the provided context"
  \o "\n- If the context doesn't contain relevant information, say so clearly"
  \o "\n- Cite sources (title/source) when referencing specific articles"
  \o "\n- Be conversational but informative"
  \o "\n- Keep responses focused and relevant"

\* The conversation histories tried: n turns, user and assistant alternating,
\* each with a content of its own.
Turns(n) ==
  [i \in 1..n |-> [role |-> IF i % 2 = 1 THEN "user" ELSE "assistant",
                   content |-> "m" \o ToString(i)]]

Histories == {Turns(n) : n \in 0..MaxTurns}

\* The passages tried at position i of a search result: a plain text or a
\* text that itself holds labelled lines; no title, a plain title or (first
\* position only) a title of two lines; a distance at or beyond the cutoff.
GenPassagesAt(i) ==
  {[text |-> x, title |-> ti, source |-> "news", url |-> "u" \o ToString(i),
    distance |-> d] :
     x \in {"p" \o ToString(i), "x\nTitle: E\nSource: S\nURL: e"},
     ti \in {"", "T" \o ToString(i)} \cup (IF i = 1 THEN {"A\nB"} ELSE {}),
     d \in {DISTANCE_CUTOFF, DISTANCE_CUTOFF + 1}}

GenInputs ==
  {SearchResult(<<>>)}
    \cup {SearchResult(<<p>>) : p \in GenPassagesAt(1)}
    \cup {SearchResult(<<p, q>>) : p \in GenPassagesAt(1), q \in GenPassagesAt(2)}
    \cup {SearchResult(<<p, q, t>>) :
            p \in GenPassagesAt(1), q \in GenPassagesAt(2), t \in GenPassagesAt(3)}

\* A query whose passages have been retrieved, with the conversation so far.
InitGenerate ==
  /\ InitWith([s \in Sessions |-> 0], InitCollection)
  /\ build = NoBuild
  /\ \E sr \in GenInputs, h \in Histories :
       gen = [NoGen EXCEPT !.searchResults = sr, !.query = "q1",
                           !.conversationHistory = h, !.stage = "start"]

\* processQuery after the search: the fixed answers (no sources) when nothing
\* was retrieved or the context is empty, else the call of generateResponse.
GenerateContext ==
  /\ gen.stage = "start"
  /\ LET context == buildContext(gen.searchResults, MAX_CONTEXT_LENGTH)
     IN  gen' = [gen EXCEPT
                   !.context = context,
                   !.stage = IF ZeroDocuments(gen.searchResults) \/ NoContext(context)
                             THEN "done" ELSE "context"]
  /\ UNCHANGED <<isConnected, clientOk, redis, now, pc, op, ret, outcome, sessionVars,
                 searchVars, chat, proc, build, uiVars>>

\* generateResponse: the prompt handed to the model and the sources returned.
GeneratePrompt ==
  /\ gen.stage = "context"
  /\ gen' = [gen EXCEPT
               !.prompt = BuildPrompt(gen.query, gen.context, gen.conversationHistory),
               !.sources = extractSources(gen.context),
               !.stage = "done"]
  /\ UNCHANGED <<isConnected, clientOk, redis, now, pc, op, ret, outcome, sessionVars,
                 searchVars, chat, proc, build, uiVars>>

NextGenerate == GenerateContext \/ GeneratePrompt

SpecGenerate == InitGenerate /\ [][NextGenerate]_vars

\* ------------------------------------------------------------ POST /chat
\* The message bodies tried: the two queries, a blank message and none.
ChatMessages == Queries \cup {" ", ""}

\* A handler whose catch sends the status without an error code.
RespondBare(r, status, failed) ==
  chat' = [chat EXCEPT ![r].stage = "responded", ![r].status = status,
                       ![r].failed = failed]

\* The handler of POST /chat sends `status` and ends: res.json(...) or, from
\* its catch, 500 with code PROCESSING_ERROR.
Respond(r, status, failed) ==
  chat' = [chat EXCEPT ![r].stage = "responded", ![r].status = status,
                       ![r].code = IF status = 500 THEN "PROCESSING_ERROR" ELSE "",
                       ![r].failed = failed]

\* A test of the message that does not trim it.
MissingMessageUntrimmed(message) == message = ""

\* `!message || !message.trim()`
MissingMessage(message) == message = "" \/ Trim(message) = ""

\* POST /chat arrives: a message that is empty after trim is answered 400;
\* otherwise the handler goes on to getContextForRAG.
ChatBegin(r, sessionId, message) ==
  /\ pc[r] = "idle"
  /\ chat[r].stage = "none"
  /\ proc[r].stage = "none"
  /\ calls' = [calls EXCEPT !.chat = @ + 1]
  /\ LET request == [NoChat EXCEPT !.sessionId = sessionId, !.message = message,
                                   !.logAtStart = StoredLog(sessionId)]
     IN  IF MissingMessage(message)
         THEN chat' = [chat EXCEPT ![r] = [request EXCEPT !.stage = "responded",
                                                          !.status = 400,
                                                          !.code = "MISSING_MESSAGE"]]
         ELSE chat' = [chat EXCEPT ![r] = [request EXCEPT !.stage = "context"]]
  /\ UNCHANGED <<isConnected, clientOk, redis, now, sessionVars, pc, op, ret, outcome,
                 embedder, chromaClient, collection, rquery, rstale, written, proc,
                 build, gen, uiVars>>

\* `await sessionService.getContextForRAG(currentSessionId, 5)`
ChatContext(r) ==
  /\ chat[r].stage = "context"
  /\ GetContextForRAG(r, chat[r].sessionId, CONTEXT_MESSAGES)

\* conversationHistory is set; next is the append of the user message.
AfterContext(r) ==
  /\ chat[r].stage = "context"
  /\ pc[r] = "done"
  /\ chat' = [chat EXCEPT ![r].stage = "userAdd", ![r].conversationHistory = ret[r]]
  /\ Release(r)
  /\ UNCHANGED <<isConnected, clientOk, redis, now, nextId, logical, lastWriter,
                 embedder, chromaClient, collection, calls, written, proc, build, gen, uiVars>>

\* `await sessionService.addMessage(currentSessionId, 'user', message.trim())`
ChatUserAdd(r) ==
  /\ chat[r].stage = "userAdd"
  /\ AddBegin(r, chat[r].sessionId, "user", Trim(chat[r].message))

\* The append of the user message has settled: a throw reaches the handler's
\* catch, which answers 500; otherwise processQuery is next.
AfterUserAdd(r) ==
  /\ chat[r].stage = "userAdd"
  /\ pc[r] = "done"
  /\ IF outcome[r] = "error"
     THEN Respond(r, 500, "userAdd")
     ELSE chat' = [chat EXCEPT ![r].stage = "process"]
  /\ Release(r)
  /\ UNCHANGED <<isConnected, clientOk, redis, now, nextId, logical, lastWriter,
                 embedder, chromaClient, collection, calls, written, proc, build, gen, uiVars>>

\* `await chatbotService.processQuery(message.trim(), conversationHistory)`
ChatProcess(r) ==
  /\ chat[r].stage = "process"
  /\ ProcessBegin(r, Trim(chat[r].message), chat[r].conversationHistory)

\* processQuery has settled: a throw is answered 500; otherwise the append of
\* the assistant message is next.
AfterProcess(r) ==
  /\ chat[r].stage = "process"
  /\ proc[r].stage = "done"
  /\ IF proc[r].outcome = "error"
     THEN Respond(r, 500, "processQuery")
     ELSE chat' = [chat EXCEPT ![r].stage = "assistantAdd",
                               ![r].response = proc[r].response]
  /\ proc' = [proc EXCEPT ![r] = NoProc]
  /\ UNCHANGED <<isConnected, clientOk, redis, now, sessionVars, pc, op, ret, outcome,
                 searchVars, build, gen, uiVars>>

\* An assistant message stored with the default metadata {}.
AssistantMetadataEmpty(response) == NoMetadata

\* { sources: response.sources, tokensUsed: response.tokensUsed }
AssistantMetadata(response) ==
  [sources |-> response.sources, tokensUsed |-> response.tokensUsed]

\* `await sessionService.addMessage(currentSessionId, 'assistant', response.content,
\*  { sources: response.sources, tokensUsed: response.tokensUsed })`
ChatAssistantAdd(r) ==
  /\ chat[r].stage = "assistantAdd"
  /\ AddBeginWith(r, chat[r].sessionId, "assistant", chat[r].response.content,
                  AssistantMetadata(chat[r].response))

\* The append of the assistant message has settled: a throw is answered 500;
\* otherwise res.json(...) answers 200.
AfterAssistantAdd(r) ==
  /\ chat[r].stage = "assistantAdd"
  /\ pc[r] = "done"
  /\ IF outcome[r] = "error"
     THEN Respond(r, 500, "assistantAdd")
     ELSE Respond(r, 200, "")
  /\ Release(r)
  /\ UNCHANGED <<isConnected, clientOk, redis, now, nextId, logical, lastWriter,
                 embedder, chromaClient, collection, calls, written, proc, build, gen, uiVars>>

\* The client has the response; the request slot is free again.
ChatEnd(r) ==
  /\ chat[r].stage = "responded"
  /\ chat' = [chat EXCEPT ![r] = NoChat]
  /\ UNCHANGED <<isConnected, clientOk, redis, now, sessionVars, pc, op, ret, outcome,
                 searchVars, proc, build, gen, uiVars>>

\* ---------------------------------------------------- DELETE /session/:id
\* DELETE /session/:id arrives: validateSession answers 400 without an id,
\* else the handler goes on to clearSession.
DeleteBegin(r, sessionId) ==
  /\ pc[r] = "idle"
  /\ chat[r].stage = "none"
  /\ LET request == [NoChat EXCEPT !.sessionId = sessionId,
                                   !.logAtStart = IF MissingId(sessionId) THEN <<>>
                                                  ELSE StoredLog(sessionId)]
     IN  IF MissingId(sessionId)
         THEN chat' = [chat EXCEPT ![r] = [request EXCEPT !.stage = "responded",
                                                          !.status = 400,
                                                          !.code = "MISSING_SESSION_ID"]]
         ELSE chat' = [chat EXCEPT ![r] = [request EXCEPT !.stage = "clear"]]
  /\ UNCHANGED <<isConnected, clientOk, redis, now, sessionVars, pc, op, ret, outcome,
                 searchVars, proc, build, gen, uiVars>>

\* `success = await sessionService.clearSession(req.sessionId)`
DeleteClear(r) ==
  /\ chat[r].stage = "clear"
  /\ ClearSession(r, chat[r].sessionId)

\* clearSession has settled: 200 when it returned true, 404 SESSION_NOT_FOUND
\* when false, 500 CLEAR_ERROR from the catch.
AfterClear(r) ==
  /\ chat[r].stage = "clear"
  /\ pc[r] = "done"
  /\ chat' = [chat EXCEPT
                ![r].stage = "responded",
                ![r].status = IF outcome[r] = "error" THEN 500
                              ELSE IF ret[r] = TRUE THEN 200 ELSE 404,
                ![r].code = IF outcome[r] = "error" THEN "CLEAR_ERROR"
                            ELSE IF ret[r] = TRUE THEN "" ELSE "SESSION_NOT_FOUND"]
  /\ Release(r)
  /\ UNCHANGED <<isConnected, clientOk, redis, now, nextId, logical, lastWriter,
                 embedder, chromaClient, collection, calls, written, proc, build, gen, uiVars>>

\* ------------------------------------------------------------ GET /health
\* isHealthy(): `this.isConnected && this.client && this.client.isReady`
isHealthy == isConnected /\ clientOk

\* getSessionCount / getQueryCacheCount: 0 when not connected or when KEYS
\* throws, else the number of keys with the prefix.
KeyCount(prefix) ==
  IF ~isConnected \/ ~clientOk THEN 0
  ELSE Cardinality({k \in Keys : k[1] = prefix /\ redis[k].present})

\* GET /health arrives.
HealthRequest(r) ==
  /\ pc[r] = "idle"
  /\ chat[r].stage = "none"
  /\ chat' = [chat EXCEPT ![r] = [NoChat EXCEPT !.stage = "health"]]
  /\ UNCHANGED <<isConnected, clientOk, redis, now, sessionVars, pc, op, ret, outcome,
                 searchVars, proc, build, gen, uiVars>>

\* `chatbotHealth = await chatbotService.healthCheck()`
HealthCheck(r) ==
  /\ chat[r].stage = "health"
  /\ HealthBegin(r)

\* The HTTP status of the health answer: res.json (200) unless one of the
\* awaited calls threw into the catch (503).
HealthStatus(thrown, chatbotHealth) == IF thrown THEN 503 ELSE 200

\* healthCheck has settled: the two key counts are read and the answer sent,
\* with status 'ok' and the health of the services in its body.
AfterHealth(r) ==
  /\ chat[r].stage = "health"
  /\ pc[r] = "done"
  /\ chat' = [chat EXCEPT
                ![r].stage = "responded",
                ![r].status = HealthStatus(outcome[r] = "error", ret[r]),
                ![r].body = IF outcome[r] = "error" THEN [status |-> "error"]
                            ELSE [status |-> "ok",
                                  chatbot |-> ret[r][1],
                                  redis |-> IF isHealthy THEN "healthy" ELSE "unhealthy",
                                  activeSessions |-> KeyCount("session"),
                                  cachedQueries |-> KeyCount("query")]]
  /\ Release(r)
  /\ UNCHANGED <<isConnected, clientOk, redis, now, nextId, logical, lastWriter,
                 embedder, chromaClient, collection, calls, written, proc, build, gen, uiVars>>

\* ------------------------------------------------------- specifications
\* Concurrent requests on the session methods, each appending a user message
\* (two /chat requests racing) or reading or clearing a session, on a server
\* that connects on start and stays connected.
Next ==
  \/ \E ok \in BOOLEAN : Connect(ok)
  \/ Tick(SessionTick)
  \/ \E r \in Reqs, s \in Sessions, c \in Contents :
       nextId <= MaxAppends /\ AddBegin(r, s, "user", c)
  \/ \E r \in Reqs : AddStore(r)
  \/ \E r \in Reqs, s \in Sessions : ClearSession(r, s)
  \/ \E r \in Reqs, s \in Sessions : GetHistory(r, s)
  \/ \E r \in Reqs, s \in Sessions : GetContextForRAG(r, s, CONTEXT_MESSAGES)
  \/ \E r \in Reqs : Return(r)

Spec == Init /\ [][Next]_vars

\* One caller appending to one session, one call after the other, on a
\* connected store that starts empty.
InitSeq == InitWith([s \in Sessions |-> 0], InitCollection) /\ build = NoBuild /\ gen = NoGen

NextSeq ==
  \/ Connect(TRUE)
  \/ \E c \in Contents :
       /\ nextId <= MaxSeqAppends
       /\ AddBegin("r1", "s1", IF nextId % 2 = 1 THEN "user" ELSE "assistant", c)
  \/ AddStore("r1")
  \/ Return("r1")

SpecSeq == InitSeq /\ [][NextSeq]_vars

\* One caller using every session method, one call after the other, with any
\* maxMessages argument.
NextCalls ==
  \/ \E ok \in BOOLEAN : Connect(ok)
  \/ Disconnect
  \/ ClientFlip
  \/ Tick(SessionTick)
  \/ \E s \in Sessions, role \in Roles, c \in Contents :
       nextId <= MaxAppends /\ AddBegin("r1", s, role, c)
  \/ AddStore("r1")
  \/ \E s \in Sessions : ClearSession("r1", s)
  \/ \E s \in Sessions : GetHistory("r1", s)
  \/ \E s \in Sessions, n \in 0..MaxN : GetContextForRAG("r1", s, n)
  \/ Return("r1")

SpecCalls == Init /\ [][NextCalls]_vars

\* One caller reading and appending to sessions whose keys may hold a value
\* that is not JSON, with outages and expiry.
NextReads ==
  \/ \E ok \in BOOLEAN : Connect(ok)
  \/ Disconnect
  \/ ClientFlip
  \/ Tick(SessionTick)
  \/ \E s \in Sessions : ForeignSet(s)
  \/ \E s \in Sessions, c \in Contents :
       nextId <= MaxAppends /\ AddBegin("r1", s, "user", c)
  \/ AddStore("r1")
  \/ \E s \in Sessions : GetHistory("r1", s)
  \/ Return("r1")

SpecReads == Init /\ [][NextReads]_vars

\* One client calling the session methods one after the other, with any
\* session id or none: an append, a clear or a read, and a read while the
\* result of the call before it is still held; time passes between the calls.
NextRound ==
  \/ \E ok \in BOOLEAN : Connect(ok)
  \/ Tick(SessionTick)
  \/ \E s \in SessionIds, role \in Roles, c \in Contents :
       nextId <= MaxAppends /\ pc["r2"] = "idle" /\ AddBegin("r1", s, role, c)
  \/ \E s \in Sessions, c \in Contents, t \in CallerTimestamps :
       nextId <= MaxAppends /\ pc["r2"] = "idle" /\ AddStamped("r1", s, "user", c, t)
  \/ AddStore("r1")
  \/ \E s \in SessionIds : pc["r2"] = "idle" /\ ClearSession("r1", s)
  \/ \E s \in SessionIds : pc["r1"] \in {"idle", "done"} /\ GetHistory("r2", s)
  \/ \E s \in SessionIds :
       pc["r1"] \in {"idle", "done"} /\ GetContextForRAG("r2", s, CONTEXT_MESSAGES)
  \/ \E r \in Reqs : Return(r)

SpecRound == Init /\ [][NextRound]_vars

\* One client calling DELETE /session/:id and GET /health, one request after
\* the other, with cache outages and expiry; the embedding model and the
\* vector store may fail.
NextRoutes ==
  \/ \E ok \in BOOLEAN : Connect(ok)
  \/ Disconnect
  \/ ClientFlip
  \/ Tick(SessionTick)
  \/ \E s \in SessionIds : DeleteBegin("r1", s)
  \/ DeleteClear("r1")
  \/ AfterClear("r1")
  \/ calls.started < MaxSearches /\ HealthRequest("r1")
  \/ HealthCheck("r1")
  \/ LoadEmbedder("r1")
  \/ \E ok \in BOOLEAN : LoadDone("r1", ok)
  \/ \E ok \in BOOLEAN : GetCollection("r1", ok)
  \/ AfterHealth("r1")
  \/ ChatEnd("r1")

SpecRoutes == Init /\ [][NextRoutes]_vars

\* The server connecting and disconnecting its store client step by step,
\* the connection dropping and coming back by itself, and a client asking
\* GET /health meanwhile.
NextConnect ==
  \/ ConnectBegin("r1")
  \/ \E ok \in BOOLEAN : ConnectDone("r1", ok)
  \/ \E ok \in BOOLEAN, ready \in BOOLEAN : Ping("r1", ok, ready)
  \/ \E ok \in BOOLEAN : DisconnectCall("r1", ok)
  \/ ClientFlip
  \/ Return("r1")
  \/ calls.started < MaxSearches /\ HealthRequest("r2")
  \/ HealthCheck("r2")
  \/ LoadEmbedder("r2")
  \/ \E ok \in BOOLEAN : LoadDone("r2", ok)
  \/ \E ok \in BOOLEAN : GetCollection("r2", ok)
  \/ AfterHealth("r2")
  \/ ChatEnd("r2")

SpecConnect == Init /\ [][NextConnect]_vars

\* Concurrent searchChroma and healthCheck calls on a store that starts empty,
\* with cache outages, cache expiry and vector-store updates; the embedding
\* model and the vector store answer every call.
InitSearch == InitWith([s \in Sessions |-> 0], InitCollection) /\ build = NoBuild /\ gen = NoGen

NextSearch ==
  \/ \E ok \in BOOLEAN : Connect(ok)
  \/ Disconnect
  \/ ClientFlip
  \/ Tick(QueryTick)
  \/ \E r \in Reqs, q \in Queries :
       calls.started < MaxSearches /\ SearchBegin(r, q)
  \/ \E r \in Reqs : calls.started < MaxSearches /\ HealthBegin(r)
  \/ \E r \in Reqs : LoadEmbedder(r)
  \/ \E r \in Reqs : LoadDone(r, TRUE)
  \/ \E r \in Reqs : Embed(r, TRUE)
  \/ \E r \in Reqs : GetCollection(r, TRUE)
  \/ \E r \in Reqs : Query(r, TRUE)
  \/ \E r \in Reqs : CacheQuery(r)
  \/ \E q \in UpdatedQueries, a \in Results : VectorStoreUpdate(q, a)
  \/ \E r \in Reqs : Return(r)

SpecSearch == InitSearch /\ [][NextSearch]_vars

\* Concurrent processQuery calls on a vector store that holds one of the
\* result kinds, with throwing model, vector-store and LLM calls and with
\* cache outages.
InitAnswer ==
  /\ \E a \in AnswerResults :
       InitWith([s \in Sessions |-> 0], [q \in Queries |-> a])
  /\ build = NoBuild /\ gen = NoGen

NextAnswer ==
  \/ \E ok \in BOOLEAN : Connect(ok)
  \/ ClientFlip
  \/ \E r \in Reqs, q \in Queries :
       calls.processQuery < MaxAnswers /\ ProcessBegin(r, q, <<>>)
  \/ \E r \in Reqs : ProcessSearch(r)
  \/ \E r \in Reqs : LoadEmbedder(r)
  \/ \E r \in Reqs, ok \in BOOLEAN : LoadDone(r, ok)
  \/ \E r \in Reqs, ok \in BOOLEAN : Embed(r, ok)
  \/ \E r \in Reqs, ok \in BOOLEAN : GetCollection(r, ok)
  \/ \E r \in Reqs, ok \in BOOLEAN : Query(r, ok)
  \/ \E r \in Reqs : CacheQuery(r)
  \/ \E r \in Reqs : AfterSearch(r)
  \/ \E r \in Reqs, ok \in BOOLEAN, text \in Answers, usage \in Usages :
       GenerateResponse(r, ok, text, usage)
  \/ \E r \in Reqs : ProcessReturn(r)

SpecAnswer == InitAnswer /\ [][NextAnswer]_vars

\* One client sending POST /chat requests, one after the other, on sessions
\* with and without a stored log, with cache-store outages and with throwing
\* model, vector-store and LLM calls.
InitChat ==
  /\ \E lens \in InitLens, a \in AnswerResults :
       InitWith(lens, [q \in Queries |-> a])
  /\ build = NoBuild /\ gen = NoGen

NextChat ==
  \/ \E ok \in BOOLEAN : Connect(ok)
  \/ Disconnect
  \/ ClientFlip
  \/ \E s \in Sessions, m \in ChatMessages :
       calls.chat < MaxChats /\ ChatBegin("r1", s, m)
  \/ ChatContext("r1")
  \/ AfterContext("r1")
  \/ ChatUserAdd("r1")
  \/ AddStore("r1")
  \/ AfterUserAdd("r1")
  \/ ChatProcess("r1")
  \/ ProcessSearch("r1")
  \/ LoadEmbedder("r1")
  \/ \E ok \in BOOLEAN : LoadDone("r1", ok)
  \/ \E ok \in BOOLEAN : Embed("r1", ok)
  \/ \E ok \in BOOLEAN : GetCollection("r1", ok)
  \/ \E ok \in BOOLEAN : Query("r1", ok)
  \/ CacheQuery("r1")
  \/ AfterSearch("r1")
  \/ \E ok \in BOOLEAN, text \in Answers, usage \in Usages :
       GenerateResponse("r1", ok, text, usage)
  \/ AfterProcess("r1")
  \/ ChatAssistantAdd("r1")
  \/ AfterAssistantAdd("r1")
  \/ ChatEnd("r1")

SpecChat == InitChat /\ [][NextChat]_vars

\* The step the /chat handler of request r takes next: the call it is about
\* to make, or the continuation of the awaited call that is in flight.
ChatStep(r) ==
  \/ ChatContext(r)
  \/ AfterContext(r)
  \/ ChatUserAdd(r)
  \/ AddStore(r)
  \/ AfterUserAdd(r)
  \/ ChatProcess(r)
  \/ ProcessSearch(r)
  \/ LoadEmbedder(r)
  \/ \E ok \in BOOLEAN : LoadDone(r, ok)
  \/ \E ok \in BOOLEAN : Embed(r, ok)
  \/ \E ok \in BOOLEAN : GetCollection(r, ok)
  \/ \E ok \in BOOLEAN : Query(r, ok)
  \/ CacheQuery(r)
  \/ AfterSearch(r)
  \/ \E ok \in BOOLEAN, text \in Answers, usage \in Usages :
       GenerateResponse(r, ok, text, usage)
  \/ AfterProcess(r)
  \/ ChatAssistantAdd(r)
  \/ AfterAssistantAdd(r)

\* /chat requests of one client, on a server that has
\* connected on start and whose connection to the store may drop and come
\* back at any time.
NextChatLive ==
  \/ Connect(TRUE)
  \/ ClientFlip
  \/ \E s \in Sessions, m \in {"q1", " "} :
       calls.chat < MaxChats /\ ChatBegin("r1", s, m)
  \/ ChatStep("r1")
  \/ ChatEnd("r1")

\* The scheduling of the event loop: every awaited call settles (it resolves
\* or it rejects) and the handler's continuation then runs, so a handler
\* that can take a step eventually takes one.
SpecChatLive == InitChat /\ [][NextChatLive]_vars /\ WF_vars(ChatStep("r1"))

\* One caller appending to sessions and searching, a second caller using a
\* read method at any moment of the first one's calls, with store outages and
\* with time passing; the first caller and the environment go on once the
\* second has taken its result.
NextReadOnly ==
  \/ pc["r2"] = "idle" /\ Connect(TRUE)
  \/ pc["r2"] = "idle" /\ ClientFlip
  \/ pc["r2"] = "idle" /\ Tick(QueryTick)
  \/ \E s \in Sessions, c \in Contents :
       pc["r2"] = "idle" /\ nextId <= MaxWrites /\ AddBegin("r1", s, "user", c)
  \/ pc["r2"] = "idle" /\ AddStore("r1")
  \/ pc["r2"] = "idle" /\ calls.started < MaxWrites /\ SearchBegin("r1", "q1")
  \/ pc["r2"] = "idle" /\ LoadEmbedder("r1")
  \/ pc["r2"] = "idle" /\ LoadDone("r1", TRUE)
  \/ pc["r2"] = "idle" /\ Embed("r1", TRUE)
  \/ pc["r2"] = "idle" /\ GetCollection("r1", TRUE)
  \/ pc["r2"] = "idle" /\ Query("r1", TRUE)
  \/ pc["r2"] = "idle" /\ CacheQuery("r1")
  \/ pc["r2"] = "idle" /\ Return("r1")
  \/ \E s \in SessionIds : GetHistory("r2", s)
  \/ \E s \in SessionIds : GetContextForRAG("r2", s, CONTEXT_MESSAGES)
  \/ \E s \in SessionIds : GetSessionStats("r2", s)
  \/ \E s \in SessionIds : SessionExists("r2", s)
  \/ \E q \in Queries : GetCachedQuery("r2", q)
  \/ Return("r2")

SpecReadOnly == Init /\ [][NextReadOnly]_vars

\* One client of a server whose store stays connected, calling POST /chat,
\* DELETE /session/:id and getHistory one after the other; the model, the
\* vector store and the LLM may throw.
NextFlow ==
  \/ Connect(TRUE)
  \/ \E s \in Sessions :
       isConnected /\ calls.chat < MaxChats /\ ChatBegin("r1", s, "q1")
  \/ ChatStep("r1")
  \/ ChatEnd("r1")
  \/ \E s \in Sessions : isConnected /\ DeleteBegin("r1", s)
  \/ DeleteClear("r1")
  \/ AfterClear("r1")
  \/ \E s \in Sessions : isConnected /\ chat["r1"].stage = "none" /\ GetHistory("r1", s)
  \/ chat["r1"].stage = "none" /\ Return("r1")

SpecFlow == InitChat /\ [][NextFlow]_vars

\* ============================================================ chat page
\* The texts typed into the message box: a question, and blanks only.
Inputs == {"q1", " "}

\* How a POST /chat request of the page settles: the reply, the 30 s timeout
\* (ECONNABORTED), a 500 answer, or any other failure.
Settlements == {"ok", "timeout", "500", "other"}

\* The session id the server creates n-th (uuidv4).
UiSession(n) == "u" \o ToString(n)

\* The welcome message createNewSession puts into the list. `session` is not
\* a field of the page's message objects: it records the session id under
\* which the message was produced.
WelcomeMessage(sessionId) ==
  [role |-> "assistant", content |-> "welcome", isError |-> FALSE, isWelcome |-> TRUE,
   session |-> sessionId]

\* newUserMessage: { id, role: 'user', content: userMessage, timestamp }
UserMessage(userMessage, sessionId) ==
  [role |-> "user", content |-> userMessage, isError |-> FALSE, isWelcome |-> FALSE,
   session |-> sessionId]

\* The error text of the catch block.
ErrorText(kind) ==
  IF kind = "timeout" THEN "Request timed out"
  ELSE IF kind = "500" THEN "Server error occurred"
  ELSE "Sorry, I encountered an error"

\* assistantMessage on success, errorMsg in the catch; request is the /chat
\* request that has settled.
ReplyMessage(request, kind) ==
  [role |-> "assistant",
   content |-> IF kind = "ok" THEN "reply to " \o request.message ELSE ErrorText(kind),
   isError |-> kind # "ok", isWelcome |-> FALSE, session |-> request.sessionId]

\* The mount effect: createNewSession() up to its await (it sets
\* connectionStatus and posts /session/new), then checkBackendConnection() up
\* to its await (it gets /health).
Mount ==
  /\ ~ui.mounted
  /\ ui' = [ui EXCEPT !.mounted = TRUE, !.connectionStatus = "connecting"]
  /\ net' = [net EXCEPT !.newSession = @ + 1, !.requested = @ + 1, !.health = @ + 1]
  /\ UNCHANGED <<isConnected, clientOk, redis, now, pc, op, ret, outcome, sessionVars,
                 searchVars, ragVars>>

\* The New Chat button (disabled unless connectionStatus is 'connected'):
\* clearChat calls createNewSession, which runs up to its await.
NewChat ==
  /\ ui.mounted
  /\ ui.connectionStatus = "connected"
  /\ ui' = [ui EXCEPT !.connectionStatus = "connecting"]
  /\ net' = [net EXCEPT !.newSession = @ + 1, !.requested = @ + 1]
  /\ UNCHANGED <<isConnected, clientOk, redis, now, pc, op, ret, outcome, sessionVars,
                 searchVars, ragVars>>

\* POST /session/new settles and createNewSession goes on: the new session id,
\* a list holding the welcome message only, no error, fresh statistics,
\* 'connected'; or, in the catch, 'disconnected' and an error.
SessionSettled(ok) ==
  /\ net.newSession > 0
  /\ IF ok
     THEN /\ ui' = [ui EXCEPT !.sessionId = UiSession(net.created + 1),
                              !.messages = <<WelcomeMessage(UiSession(net.created + 1))>>,
                              !.error = "",
                              !.sessionStats = [messageCount |-> 0],
                              !.connectionStatus = "connected"]
          /\ net' = [net EXCEPT !.newSession = @ - 1, !.created = @ + 1]
     ELSE /\ ui' = [ui EXCEPT !.connectionStatus = "disconnected",
                              !.error = "Failed to create new session"]
          /\ net' = [net EXCEPT !.newSession = @ - 1]
  /\ UNCHANGED <<isConnected, clientOk, redis, now, pc, op, ret, outcome, sessionVars,
                 searchVars, ragVars>>

\* The Retry Connection button, shown while 'disconnected':
\* checkBackendConnection up to its await.
RetryConnection ==
  /\ ui.mounted
  /\ ui.connectionStatus = "disconnected"
  /\ net' = [net EXCEPT !.health = @ + 1]
  /\ UNCHANGED <<isConnected, clientOk, redis, now, pc, op, ret, outcome, sessionVars,
                 searchVars, ragVars, ui>>

\* GET /health settles and checkBackendConnection goes on: 'connected', or
\* 'disconnected' and an error.
HealthSettled(ok) ==
  /\ net.health > 0
  /\ net' = [net EXCEPT !.health = @ - 1]
  /\ ui' = IF ok THEN [ui EXCEPT !.connectionStatus = "connected"]
           ELSE [ui EXCEPT !.connectionStatus = "disconnected",
                           !.error = "Cannot connect to backend server"]
  /\ UNCHANGED <<isConnected, clientOk, redis, now, pc, op, ret, outcome, sessionVars,
                 searchVars, ragVars>>

\* The message box, `disabled={isLoading || !sessionId || connectionStatus !==
\* 'connected'}`: onChange sets inputMessage.
TypeInput(text) ==
  /\ ui.mounted
  /\ ~ui.isLoading /\ ui.sessionId # "" /\ ui.connectionStatus = "connected"
  /\ ui.inputMessage # text
  /\ ui' = [ui EXCEPT !.inputMessage = text]
  /\ UNCHANGED <<isConnected, clientOk, redis, now, pc, op, ret, outcome, sessionVars,
                 searchVars, ragVars, net>>

\* The button of the error banner: setError(null).
DismissError ==
  /\ ui.error # ""
  /\ ui' = [ui EXCEPT !.error = ""]
  /\ UNCHANGED <<isConnected, clientOk, redis, now, pc, op, ret, outcome, sessionVars,
                 searchVars, ragVars, net>>

\* sendMessage's first line: `!inputMessage.trim() || isLoading || !sessionId
\* || connectionStatus !== 'connected'` returns.
CanSend ==
  /\ Trim(ui.inputMessage) # ""
  /\ ~ui.isLoading
  /\ ui.sessionId # ""
  /\ ui.connectionStatus = "connected"

\* A send that leaves isLoading as it is.
SendingNotLoading(userMessage) ==
  [ui EXCEPT !.inputMessage = "",
             !.error = "",
             !.messages = Append(@, UserMessage(userMessage, ui.sessionId)),
             !.isTyping = TRUE]

\* sendMessage up to its await: the box is emptied, isLoading is set, the
\* error is cleared, the user message is appended, isTyping is set.
Sending(userMessage) ==
  [ui EXCEPT !.inputMessage = "",
             !.isLoading = TRUE,
             !.error = "",
             !.messages = Append(@, UserMessage(userMessage, ui.sessionId)),
             !.isTyping = TRUE]

\* sendMessage is called (Enter, or the send button): it returns at once
\* unless CanSend; else it runs up to `await axios.post('/chat', { message,
\* sessionId })`.
SendMessage ==
  /\ ui.mounted
  /\ IF CanSend
     THEN /\ ui' = Sending(Trim(ui.inputMessage))
          /\ net' = [net EXCEPT
                       !.chat = @ \cup {[id |-> net.sent + 1,
                                         sessionId |-> ui.sessionId,
                                         message |-> Trim(ui.inputMessage)]},
                       !.sent = @ + 1]
     ELSE UNCHANGED <<ui, net>>
  /\ UNCHANGED <<isConnected, clientOk, redis, now, pc, op, ret, outcome, sessionVars,
                 searchVars, ragVars>>

\* The /chat request settles and sendMessage goes on: the reply is appended
\* and the statistics are updated, or the catch sets the error and appends
\* an error message; `finally` resets isLoading.
ChatSettled(request, kind) ==
  /\ request \in net.chat
  /\ ui' = [ui EXCEPT
              !.isTyping = FALSE,
              !.messages = Append(@, ReplyMessage(request, kind)),
              !.sessionStats.messageCount = IF kind = "ok" THEN @ + 1 ELSE @,
              !.error = IF kind = "ok" THEN @ ELSE "Failed to send message",
              !.isLoading = FALSE]
  /\ net' = [net EXCEPT !.chat = @ \ {request}]
  /\ UNCHANGED <<isConnected, clientOk, redis, now, pc, op, ret, outcome, sessionVars,
                 searchVars, ragVars>>

\* Some pending /chat request of the page settles.
ChatSettle == \E request \in net.chat, kind \in Settlements : ChatSettled(request, kind)

\* A user of the chat page: typing, sending, starting new chats and retrying
\* the connection while requests are pending; every request may fail.
NextUI ==
  \/ Mount
  \/ net.requested < MaxSessions /\ NewChat
  \/ \E ok \in BOOLEAN : SessionSettled(ok)
  \/ net.health < MaxSessions /\ RetryConnection
  \/ \E ok \in BOOLEAN : HealthSettled(ok)
  \/ \E text \in Inputs \cup {""} : TypeInput(text)
  \/ DismissError
  \/ net.sent < MaxSends /\ SendMessage
  \/ ChatSettle

SpecUI == Init /\ [][NextUI]_vars

\* The scheduling of the browser: a /chat request settles within its 30 s
\* timeout (resolved, rejected or aborted), and the continuation of
\* sendMessage then runs.
SpecUILive == Init /\ [][NextUI]_vars /\ WF_vars(ChatSettle)

\* ================================================================ claims
\* The last n entries of a log, in order.
LastN(log, n) == SubSeq(log, Len(log) - Min(n, Len(log)) + 1, Len(log))

\* Whether a message (by id) is in a log.
InLog(message, log) == \E i \in 1..Len(log) : log[i].id = message.id

\* Request r has completed a call of `method`.
Completed(r, method) == pc[r] = "done" /\ op[r] = method

\* Request r has completed an append that stored its message.
Stored(r) == Completed(r, "add") /\ outcome[r] = "ok" /\ ret[r] # <<>>

\* C1: in every reachable state every session key holds at most 50 messages,
\* whatever appends, clears and expiries produced it.
C1_LogAtMost50 ==
  \A s \in Sessions :
    /\ Len(StoredLog(s)) <= 50
    /\ redis[SessionKey(s)].present =>
         Len(JSONParse(redis[SessionKey(s)].val)) <= 50

\* C1 witness: an append that loaded a full log of 50 has stored, and the log
\* still has 50 entries.
C1_Witness ==
  \E r \in Reqs :
    /\ Stored(r)
    /\ Len(hist[r]) = 50
    /\ Len(StoredLog(rsid[r])) = 50

\* C2: after k sequential appends on a connected store the log is exactly the
\* last min(k, 50) messages of the full history, in append order; after 51
\* appends it has 50 entries and the first appended message is gone.
C2_SequentialSuffix ==
  LET full == logical["s1"]
      k    == Len(full)
      log  == StoredLog("s1")
  IN  /\ log = LastN(full, Min(k, 50))
      /\ k = 51 => /\ Len(log) = 50
                   /\ ~InLog(full[1], log)
                   /\ log[50] = full[51]

\* C2 witness: the 51st append has stored.
C2_Witness ==
  /\ Len(logical["s1"]) = 51
  /\ Stored("r1")
  /\ Len(StoredLog("s1")) = 50

\* C3: getContextForRAG(id, n) returns at most n entries, the last n of the
\* log it read, for every n >= 0.
C3_AtMostN ==
  \A r \in Reqs :
    Completed(r, "context") =>
      /\ Len(ret[r]) <= rmax[r]
      /\ ret[r] = FormatContext(LastN(hist[r], rmax[r]))

\* C4: when two appends to one session both succeed and the later writer
\* loaded the log before the earlier writer stored, the log holds the later
\* writer's message and not the earlier one's (last writer wins).
C4_LastWriterWins ==
  \A r1 \in Reqs, r2 \in Reqs :
    ( /\ r1 # r2
      /\ Stored(r1) /\ Stored(r2)
      /\ rsid[r1] = rsid[r2]
      /\ lastWriter[rsid[r2]] = r2
      /\ r1 \in missed[r2] )
    => /\ InLog(rmsg[r2], StoredLog(rsid[r2]))
       /\ ~InLog(rmsg[r1], StoredLog(rsid[r2]))

\* C4 witness: both appends have returned their arrays, and the stored log
\* holds only one of the two messages.
C4_LostUpdate ==
  \E r1 \in Reqs, r2 \in Reqs :
    /\ r1 # r2
    /\ Stored(r1) /\ Stored(r2)
    /\ rsid[r1] = rsid[r2]
    /\ InLog(rmsg[r1], ret[r1])
    /\ InLog(rmsg[r2], StoredLog(rsid[r2]))
    /\ ~InLog(rmsg[r1], StoredLog(rsid[r2]))

\* The session a step of request r works on.
ActingSession(r) == IF pc[r] = "idle" THEN rsid'[r] ELSE rsid[r]

\* C5: a step of a request on session A leaves the key of every other
\* session (its log, its expiry, its existence) as it was.
C5_OtherSessionsUntouched ==
  [][\A r \in Reqs :
       pc'[r] # pc[r] =>
         \A s \in Sessions :
           s # ActingSession(r) =>
             redis'[SessionKey(s)] = redis[SessionKey(s)]]_vars

\* C5 witness: an append to s2 has stored while s1 holds a log.
C5_Witness ==
  \E r \in Reqs :
    /\ Stored(r)
    /\ rsid[r] = "s2"
    /\ StoredLog("s1") # <<>>

\* C6: the embedding model is loaded (pipeline) at most once per process and
\* the collection handle is obtained (getCollection) at most once, whatever
\* the interleaving of searchChroma and healthCheck calls.
C6_InitializedOnce ==
  /\ calls.pipeline <= 1
  /\ calls.getCollection <= 1

\* A step in which request r starts a search for query q.
SearchStarts(r, q) == pc[r] = "idle" /\ op'[r] = "search" /\ rquery'[r] = q

\* The last cache write for q happened, less than `age` seconds ago.
WrittenWithin(q, age) == written[q].at >= 0 /\ now - written[q].at < age

\* C7: a search for a query whose result an earlier search cached less than
\* 3600 s ago, with the cache store connected, returns that cached result and
\* runs neither the model load, the embedding nor the vector-store query.
C7_SecondSearchFromCache ==
  [][\A r \in Reqs, q \in Queries :
       (SearchStarts(r, q) /\ isConnected /\ clientOk /\ WrittenWithin(q, 3600)) =>
         /\ pc'[r] = "done"
         /\ outcome'[r] = "ok"
         /\ ret'[r] = written[q].val
         /\ calls'.embed = calls.embed
         /\ calls'.query = calls.query
         /\ calls'.pipeline = calls.pipeline
         /\ calls'.getCollection = calls.getCollection]_vars

\* Every call started has ended.
AllEnded == \A r \in Reqs : pc[r] \in {"idle", "done"}

\* C7 witness: two searches have ended after one embedding and one vector
\* query; the second returned what the first had cached.
C7_Witness ==
  /\ AllEnded
  /\ calls.started = 2 /\ calls.embed = 1 /\ calls.query = 1
  /\ calls.getCollection = 1
  /\ \E r \in Reqs :
       /\ Completed(r, "search")
       /\ ret[r] = written[rquery[r]].val
       /\ ret[r] = collection[rquery[r]]

\* C8: a search is answered from the cache only when the entry was written
\* less than 3600 s ago; once the entry is that old the search takes the
\* embedding + vector-search path.
C8_NoHitPastTTL ==
  [][\A r \in Reqs, q \in Queries :
       SearchStarts(r, q) =>
         /\ pc'[r] = "done" => WrittenWithin(q, 3600)
         /\ ~WrittenWithin(q, 3600) => pc'[r] = "loadEmbedder"]_vars

\* C8 witness: a search that started when the entry written for its query was
\* 3600 s old or more is on the live path.
C8_Witness ==
  \E r \in Reqs :
    /\ op[r] = "search"
    /\ pc[r] = "loadEmbedder"
    /\ written[rquery[r]].at >= 0
    /\ now - written[rquery[r]].at >= 3600
    /\ isConnected /\ clientOk

\* A step in which the search of request r gets its result (from the cache or
\* from the vector store).
GetsResult(r) == op'[r] = "search" /\ pc'[r] # pc[r] /\ ret'[r] # ret[r]

\* C9 as stated: whatever search() gets, from the cache or from the vector
\* store, is what the vector store answers to that query at that moment.
C9_CacheTransparent ==
  [][\A r \in Reqs :
       GetsResult(r) => ret'[r] = collection[rquery'[r]]]_vars

\* C9 amended: what search() gets is what the vector store answered to a live
\* query for the same query string: its own on a miss, and on a hit the one
\* cached less than 3600 s ago; it is the vector store's present answer
\* whenever the store has not been updated for that query since that answer.
C9_CacheServesLiveAnswer ==
  [][\A r \in Reqs :
       GetsResult(r) =>
         IF pc[r] = "idle"
         THEN /\ WrittenWithin(rquery'[r], 3600)
              /\ ret'[r] = written[rquery'[r]].val
              /\ ~written[rquery'[r]].stale => ret'[r] = collection[rquery'[r]]
         ELSE ret'[r] = collection[rquery'[r]]]_vars

\* C9 witness: two searches have ended after one vector query, and the result
\* served from the cache is no longer what the vector store answers.
C9_Witness ==
  /\ AllEnded
  /\ calls.started = 2 /\ calls.query = 1 /\ calls.getCollection = 1
  /\ \E r \in Reqs :
       /\ Completed(r, "search")
       /\ ret[r] = written[rquery[r]].val
       /\ written[rquery[r]].stale
       /\ ret[r] # collection[rquery[r]]

\* C10 as stated: an append called while isConnected is false throws, and an
\* append that returns has stored its message.
C10_WriteFailsWhenDown ==
  [][\A r \in Reqs :
       (pc[r] # "done" /\ pc'[r] = "done" /\ op'[r] = "add") =>
         /\ ~isConnected => outcome'[r] = "error"
         /\ outcome'[r] = "ok" =>
              redis'[SessionKey(rsid'[r])] # redis[SessionKey(rsid'[r])]]_vars

\* C10 amended: an append called while isConnected is false returns [] without
\* throwing and stores nothing; an append throws exactly when isConnected was
\* true at the call and setEx throws; an append that returns a non-empty array
\* has stored exactly that array.
C10_WriteWhenDownReturnsEmpty ==
  [][\A r \in Reqs :
       (pc[r] # "done" /\ pc'[r] = "done" /\ op'[r] = "add") =>
         /\ (pc[r] = "idle" /\ ~isConnected) =>
              /\ outcome'[r] = "ok"
              /\ ret'[r] = <<>>
              /\ redis' = redis
         /\ outcome'[r] = "error" <=> (pc[r] = "addStore" /\ ~clientOk)
         /\ (outcome'[r] = "ok" /\ ret'[r] # <<>>) =>
              redis'[SessionKey(rsid'[r])].val = JSONStringify(ret'[r])
         /\ outcome'[r] = "error" => redis' = redis]_vars

\* C10 witness: an append has returned [] without an error.
C10_Witness ==
  /\ Completed("r1", "add")
  /\ outcome["r1"] = "ok"
  /\ ret["r1"] = <<>>
  /\ ~isConnected

\* C11: getSessionHistory never raises; it returns [] when the store is not
\* connected, when the GET throws, when the key is absent or expired and when
\* the stored text cannot be parsed, and the parsed log in every other case.
C11_ReadNeverRaises ==
  [][\A r \in Reqs :
       (pc[r] = "idle" /\ op'[r] = "history") =>
         LET key == redis[SessionKey(rsid'[r])]
             empty == \/ ~isConnected
                      \/ ~clientOk
                      \/ ~key.present
                      \/ now >= key.expireAt
                      \/ key.val[1] # "json"
         IN  /\ pc'[r] = "done"
             /\ outcome'[r] = "ok"
             /\ empty => ret'[r] = <<>>
             /\ ~empty => ret'[r] = key.val[2]]_vars

\* C11 witness: a read on a connected, working store has returned [] for a
\* key that holds a text that is not JSON.
C11_Witness ==
  /\ Completed("r1", "history")
  /\ outcome["r1"] = "ok"
  /\ ret["r1"] = <<>>
  /\ isConnected /\ clientOk
  /\ redis[SessionKey(rsid["r1"])].present
  /\ redis[SessionKey(rsid["r1"])].val = NotJson

\* The passage blocks of a search result, one per passage, in result order.
BlockAt(searchResults, i) ==
  DocContext(FirstOf(searchResults.metadatas)[i], FirstOf(searchResults.documents)[i])

PassageCount(searchResults) == Len(FirstOf(searchResults.documents))

\* The blocks of the passages whose index is in S, from index i on, concatenated.
RECURSIVE BlocksFrom(_, _, _)
BlocksFrom(searchResults, S, i) ==
  IF i > PassageCount(searchResults) THEN ""
  ELSE (IF i \in S THEN BlockAt(searchResults, i) ELSE "")
         \o BlocksFrom(searchResults, S, i + 1)

\* Whether `sub` occurs in `text`.
Contains(text, sub) ==
  \E k \in 0..(Len(text) - Len(sub)) : SubSeq(text, k + 1, k + Len(sub)) = sub

\* C19: the text buildContext returns is never longer than maxLength and is
\* the concatenation of whole passage blocks (trimmed at its two ends only):
\* no block is cut part-way.
C19_WithinBudgetWholeBlocks ==
  build.called =>
    /\ Len(build.context) <= build.maxLength
    /\ \E S \in SUBSET (1..PassageCount(build.searchResults)) :
         build.context = Trim(BlocksFrom(build.searchResults, S, 1))

\* C19 witness: of two passages that pass the filter the budget admits the
\* first block and not the second; the text is the first block, whole.
C19_Witness ==
  /\ build.called
  /\ PassageCount(build.searchResults) = 2
  /\ \A i \in 1..2 : FirstOf(build.searchResults.distances)[i] = 80
  /\ Len(BlockAt(build.searchResults, 1)) <= build.maxLength
  /\ Len(BlockAt(build.searchResults, 1)) + Len(BlockAt(build.searchResults, 2))
       > build.maxLength
  /\ build.context = Trim(BlockAt(build.searchResults, 1))
  /\ Len(build.context) > 0

\* C20: the block of a passage whose distance is greater than 0.8 never occurs
\* in the built context, wherever the passage stands and whether or not the
\* other passages have a distance; a passage at exactly 0.8 is kept whenever
\* the budget admits every block.
C20_FarPassagesExcluded ==
  build.called =>
    LET sr == build.searchResults
        n  == PassageCount(sr)
        distances == FirstOf(sr.distances)
    IN  \A i \in 1..n :
          /\ (distances[i] # Undefined /\ distances[i] > 80) =>
               ~Contains(build.context, Trim(BlockAt(sr, i)))
          /\ (distances[i] = 80 /\ Len(BlocksFrom(sr, 1..n, 1)) <= build.maxLength) =>
               Contains(build.context, Trim(BlockAt(sr, i)))

\* C20 witness: the first passage is farther than 0.8 and the second is at
\* exactly 0.8; the context is the second block alone.
C20_Witness ==
  /\ build.called
  /\ PassageCount(build.searchResults) = 2
  /\ FirstOf(build.searchResults.distances)[1] = 81
  /\ FirstOf(build.searchResults.distances)[2] = 80
  /\ build.context = Trim(BlockAt(build.searchResults, 2))
  /\ Len(build.context) > 0

\* The stages of searchChroma at which an awaited model or vector-store call
\* is pending.
Retrieving(r) ==
  op[r] = "search" /\ pc[r] \in {"loading", "embed", "getCollection", "query"}

\* C14: when the model load, the embedding, the collection fetch or the vector
\* query throws, searchChroma ends with an error and not with a result, and
\* processQuery ends with an error and no response; a cache entry is written
\* only by a search whose vector query returned, with the result it returns.
C14_RetrievalFailureIsError ==
  [][/\ \A r \in Reqs :
          /\ (Retrieving(r) /\ pc'[r] = "done") =>
               /\ outcome'[r] = "error"
               /\ redis' = redis
          /\ (proc[r].stage = "search" /\ pc[r] = "done" /\ outcome[r] = "error"
                /\ proc'[r] # proc[r]) =>
               /\ proc'[r].stage = "done"
               /\ proc'[r].outcome = "error"
               /\ ~proc'[r].response.set
               /\ proc'[r].generateContent = 0
               /\ redis' = redis
     /\ \A q \in Queries :
          (redis'[CacheKey(q)] # redis[CacheKey(q)] /\ redis'[CacheKey(q)].present) =>
            \E r \in Reqs :
              /\ pc[r] = "cacheQuery" /\ rquery[r] = q
              /\ pc'[r] = "done" /\ outcome'[r] = "ok"
              /\ redis'[CacheKey(q)].val = JSONStringify(ret'[r])]_vars

\* C14 witness: a processQuery call has failed in retrieval after its
\* embedding step ran, on a working cache store that holds no entry for its
\* query.
C14_Witness ==
  \E r \in Reqs :
    /\ proc[r].stage = "done"
    /\ proc[r].searched = "threw"
    /\ proc[r].outcome = "error"
    /\ calls.embed >= 1
    /\ isConnected /\ clientOk
    /\ ~redis[CacheKey(proc[r].query)].present

\* C15: one processQuery / generateResponse call invokes model.generateContent
\* at most once; when the invocation throws the call ends with an error, with
\* no response and with exactly that one invocation.
C15_LLMInvokedAtMostOnce ==
  \A r \in Reqs :
    /\ proc[r].generateContent <= 1
    /\ proc[r].generated = "threw" =>
         /\ proc[r].stage = "done"
         /\ proc[r].outcome = "error"
         /\ ~proc[r].response.set
         /\ proc[r].generateContent = 1

\* C15 witness: a call whose model invocation threw has ended.
C15_Witness ==
  \E r \in Reqs :
    /\ proc[r].stage = "done"
    /\ proc[r].generated = "threw"
    /\ proc[r].generateContent = 1

\* C16: a processQuery call that ends with an error has made a second attempt:
\* a second model invocation, or a second searchChroma call.
C16_RetriedBeforeFailure ==
  \A r \in Reqs :
    (proc[r].stage = "done" /\ proc[r].outcome = "error") =>
      \/ proc[r].generateContent >= 2
      \/ calls.started > calls.processQuery

\* C17: when retrieval returns zero documents processQuery returns the fixed
\* "couldn't find any relevant information" answer with sources [] and
\* tokensUsed null, and never invokes the LLM.
C17_ZeroDocumentsFixedAnswer ==
  \A r \in Reqs :
    (proc[r].searched = "ok" /\ PassageCount(proc[r].searchResults) = 0) =>
      /\ proc[r].stage = "done"
      /\ proc[r].outcome = "ok"
      /\ proc[r].response =
           [content |-> NOT_FOUND_MESSAGE, sources |-> <<>>, tokensUsed |-> Null,
            set |-> TRUE]
      /\ proc[r].response.content # NOT_RELATED_MESSAGE
      /\ proc[r].generateContent = 0

\* C17 witness: a call whose search returned zero documents has ended.
C17_Witness ==
  \E r \in Reqs :
    /\ proc[r].stage = "done"
    /\ proc[r].searched = "ok"
    /\ PassageCount(proc[r].searchResults) = 0
    /\ proc[r].response.content = NOT_FOUND_MESSAGE

\* Every passage of the result is skipped by the distance filter.
AllSkipped(searchResults) ==
  \A i \in 1..PassageCount(searchResults) :
    LET d == DistanceAt(FirstOf(searchResults.distances), i)
    IN  d # Undefined /\ d > 80

\* The first passage the filter keeps has a block longer than the budget.
FirstKeptOverBudget(searchResults, budget) ==
  \E i \in 1..PassageCount(searchResults) :
    /\ LET d == DistanceAt(FirstOf(searchResults.distances), i)
       IN  ~(d # Undefined /\ d > 80)
    /\ \A j \in 1..(i - 1) :
         LET d == DistanceAt(FirstOf(searchResults.distances), j)
         IN  d # Undefined /\ d > 80
    /\ Len(BlockAt(searchResults, i)) > budget

\* The call of request r got at least one document from retrieval.
GotDocuments(r) ==
  proc[r].searched = "ok" /\ PassageCount(proc[r].searchResults) >= 1

\* An empty context gives the fixed "not closely related" answer, with no
\* sources and no LLM call.
EmptyContextFixedAnswer(r) ==
  proc[r].context = "" =>
    /\ proc[r].stage = "done"
    /\ proc[r].outcome = "ok"
    /\ proc[r].response =
         [content |-> NOT_RELATED_MESSAGE, sources |-> <<>>, tokensUsed |-> Null,
          set |-> TRUE]
    /\ proc[r].response.content # NOT_FOUND_MESSAGE
    /\ proc[r].generateContent = 0

\* C18 as stated: with at least one document and an empty context the answer
\* is the fixed "not closely related" one without an LLM call, and the context
\* is empty exactly when the distance filter skipped every passage.
C18_EmptyIffAllSkipped ==
  \A r \in Reqs :
    GotDocuments(r) =>
      /\ EmptyContextFixedAnswer(r)
      /\ proc[r].context = "" <=> AllSkipped(proc[r].searchResults)

\* C18 amended: the same answer, and the context is empty exactly when the
\* filter skipped every passage or the block of the first passage it kept is
\* longer than the budget of 4000 characters.
C18_EmptyIffNothingAdmitted ==
  \A r \in Reqs :
    GotDocuments(r) =>
      /\ EmptyContextFixedAnswer(r)
      /\ proc[r].context = "" <=>
           \/ AllSkipped(proc[r].searchResults)
           \/ FirstKeptOverBudget(proc[r].searchResults, 4000)

\* C18 witness: a call has returned the "not closely related" answer for a
\* passage at distance 0.8 whose block exceeds the budget.
C18_Witness ==
  \E r \in Reqs :
    /\ proc[r].stage = "done"
    /\ GotDocuments(r)
    /\ ~AllSkipped(proc[r].searchResults)
    /\ proc[r].context = ""
    /\ proc[r].response.content = NOT_RELATED_MESSAGE

\* The /chat request of r has been answered.
Responded(r) == chat[r].stage = "responded"

\* C12: a /chat request is never failed because of the cache store: whenever
\* it is answered with an error, the error came from processQuery (retrieval
\* or generation), not from a session append.
C12_CacheOutageNeverFailsChat ==
  \A r \in Reqs :
    (Responded(r) /\ chat[r].status # 400) =>
      \/ chat[r].status = 200
      \/ chat[r].failed = "processQuery"

\* C13: a /chat request whose retrieval or generation failed leaves the
\* stored log of its session as it was when the request arrived.
C13_FailedRequestLeavesLog ==
  \A r \in Reqs :
    (Responded(r) /\ chat[r].failed = "processQuery") =>
      StoredLog(chat[r].sessionId) = chat[r].logAtStart

\* The passages of a search result that are within the cutoff, from index i
\* on, as {title, source, url} with the defaults of the passage block.
RECURSIVE IncludedFrom(_, _)
IncludedFrom(searchResults, i) ==
  IF i > PassageCount(searchResults) THEN <<>>
  ELSE LET meta == FirstOf(searchResults.metadatas)[i]
           d == FirstOf(searchResults.distances)[i]
       IN  (IF d <= DISTANCE_CUTOFF
            THEN <<[title |-> OrElse(meta.title, "Unknown"),
                    source |-> OrElse(meta.source, "Unknown"),
                    url |-> OrElse(meta.url, "N/A")]>>
            ELSE <<>>) \o IncludedFrom(searchResults, i + 1)

\* generateResponse was called and has returned.
Generated == gen.stage = "done" /\ gen.prompt # ""

\* C21: the sources generateResponse returns are exactly the passages that
\* were included in the context: as many, in the same order, each with the
\* title, source and url of its passage, whatever the passage texts and
\* metadata values are.
C21_SourcesAreIncludedPassages ==
  Generated => gen.sources = IncludedFrom(gen.searchResults, 1)

\* C30: the prompt holds at most three earlier turns, the last three of the
\* conversation history in their order, and no previous-conversation section
\* at all when the history is empty.
C30_PromptHoldsLastThreeTurns ==
  Generated =>
    LET h == gen.conversationHistory
        last == LastN(h, 3)
    IN  /\ h = <<>> => ~Contains(gen.prompt, "Previous conversation:")
        /\ h # <<>> =>
             Contains(gen.prompt,
                      "\n\nPrevious conversation:\n"
                        \o JoinLines([i \in 1..Len(last) |-> TurnLine(last[i])], 1)
                        \o "\n\nUser Question: ")
        /\ \A i \in 1..(Len(h) - 3) : ~Contains(gen.prompt, TurnLine(h[i]))

\* C30 witness: a prompt built from a history of four turns.
C30_Witness ==
  /\ Generated
  /\ Len(gen.conversationHistory) = 4
  /\ Contains(gen.prompt, "Assistant: m4")


\* C22: on a connected store, an append through the session service
\* followed by getHistory on the same id returns the messages the session
\* held followed by exactly one new message with the role and content given
\* and a timestamp (the oldest message gives way once the cap is reached; a
\* new session id has no earlier messages).
C22_AppendThenHistoryRoundTrip ==
  (/\ Stored("r1")
   /\ Completed("r2", "history")
   /\ rsid["r2"] = rsid["r1"]
   /\ redis[SessionKey(rsid["r1"])].present) =>
    LET prior == hist["r1"]
        got == ret["r2"]
        new == got[Len(got)]
    IN  /\ Len(got) >= 1
        /\ new.role = rmsg["r1"].role
        /\ new.content = rmsg["r1"].content
        /\ new.id = rmsg["r1"].id
        /\ new.timestamp >= 0
        /\ SubSeq(got, 1, Len(got) - 1) = LastN(prior, MAX_MESSAGES - 1)
        /\ Len(prior) < MAX_MESSAGES => got = Append(prior, new)

\* The history read after an append to a session that held 49 messages: those
\* 49 followed by the new one.
C22_WitnessFullLog ==
  /\ Stored("r1")
  /\ Completed("r2", "history")
  /\ rsid["r2"] = rsid["r1"]
  /\ Len(hist["r1"]) = MAX_MESSAGES - 1
  /\ Len(ret["r2"]) = MAX_MESSAGES
  /\ ret["r2"][MAX_MESSAGES].id = rmsg["r1"].id

\* C22 witness (a new session id): the history holds the one message.
C22_Witness ==
  /\ Stored("r1")
  /\ Completed("r2", "history")
  /\ rsid["r2"] = rsid["r1"]
  /\ hist["r1"] = <<>>
  /\ Len(ret["r2"]) = 1

\* C23: a message enters a stored log with the time of its append as
\* timestamp, whatever timestamp the caller put on it, and no step changes
\* the timestamp (or anything else) of a message that was stored before: each
\* message of a log after a step is the message being appended, stamped with
\* the current time, or a message as the log, or the appender's reading of
\* the log, held it.
C23_TimestampSetByStoreOnce ==
  [][\A s \in Sessions :
       LET old == StoredLog(s)
           new == StoredLog(s)'
       IN  new # old => \A j \in 1..Len(new) :
             /\ \A i \in 1..Len(old) : old[i].id = new[j].id => old[i] = new[j]
             /\ \/ \E i \in 1..Len(old) : old[i] = new[j]
                \/ \E r \in Reqs :
                     /\ pc[r] = "addStore" /\ rsid[r] = s
                     /\ \/ \E i \in 1..Len(hist[r]) : hist[r][i] = new[j]
                        \/ /\ new[j].id = rmsg[r].id
                           /\ new[j].timestamp = now
                           /\ new[j].role = rmsg[r].role
                           /\ new[j].content = rmsg[r].content]_vars

\* C23 witness: a log holding two messages appended at different times, the
\* second handed in with a timestamp of the caller's; each shows the time of
\* its own append.
C23_Witness ==
  /\ Stored("r1")
  /\ rmsg["r1"].timestamp \in CallerTimestamps
  /\ now = SessionTick
  /\ LET log == StoredLog(rsid["r1"])
     IN  /\ Len(log) = 2
         /\ log[1].timestamp = 0
         /\ log[1].id > 0
         /\ log[2].timestamp = now
         /\ log[2].id = rmsg["r1"].id

\* C24: addMessage, getHistory, clearSession (and getContextForRAG) called
\* with an empty or absent session id throw 'Session ID is required' at once:
\* the store is neither read nor written and no message is created.
C24_MissingIdThrowsBeforeStore ==
  [][\A r \in Reqs :
       (pc[r] = "idle" /\ pc'[r] # "idle" /\ rsid'[r] = ""
          /\ op'[r] \in {"add", "history", "clear", "context"}) =>
         /\ pc'[r] = "done"
         /\ outcome'[r] = "error"
         /\ ret'[r] = <<"Session ID is required">>
         /\ redis' = redis
         /\ nextId' = nextId
         /\ hist'[r] = hist[r]]_vars

\* C24 witness: an append without id has thrown on a connected store.
C24_Witness ==
  /\ isConnected
  /\ Completed("r1", "add")
  /\ rsid["r1"] = ""
  /\ outcome["r1"] = "error"
  /\ Completed("r2", "history")
  /\ rsid["r2"] = ""
  /\ outcome["r2"] = "error"

\* C29: every successful session write sets the key's expiry to the full TTL
\* (86400 s) from the time of the write; nothing else moves the expiry of a
\* key, reads in particular leave the store as it is; and a key only goes
\* when its expiry time has come, a full TTL after the last write.
C29_WriteResetsTTLReadsDoNot ==
  [][/\ \A r \in Reqs :
          (pc[r] = "addStore" /\ pc'[r] = "done" /\ outcome'[r] = "ok") =>
            /\ redis'[SessionKey(rsid[r])].present
            /\ redis'[SessionKey(rsid[r])].expireAt = now + SESSION_TTL
     /\ \A r \in Reqs :
          (pc[r] = "idle" /\ op'[r] \in {"history", "context"}) => redis' = redis
     /\ \A s \in Sessions :
          LET key == redis[SessionKey(s)]
              key2 == redis'[SessionKey(s)]
          IN  /\ (key.present /\ key2.present /\ key2.expireAt # key.expireAt) =>
                   \E r \in Reqs : pc[r] = "addStore" /\ pc'[r] = "done" /\ rsid[r] = s
              /\ (key.present /\ ~key2.present) =>
                   \/ now' >= key.expireAt
                   \/ \E r \in Reqs : pc[r] = "idle" /\ op'[r] = "clear"]_vars

\* C29 witness: an append to a session that had half its TTL left has set
\* the expiry a full TTL ahead.
C29_Witness ==
  /\ Stored("r1")
  /\ now = SessionTick
  /\ Len(hist["r1"]) > 0
  /\ redis[SessionKey(rsid["r1"])].expireAt = now + SESSION_TTL
  /\ Completed("r2", "history")
  /\ rsid["r2"] = rsid["r1"]


\* C25: a POST /chat whose message is missing or empty after trimming is
\* answered 400 MISSING_MESSAGE at once, and neither the arrival of the
\* request nor anything after it touches the session or cache store, creates
\* a message, or calls the embedder, the vector store or the LLM.
C25_BlankMessageRejectedNoSideEffects ==
  [][\A r \in Reqs :
       /\ (chat[r].stage = "none" /\ chat'[r].stage # "none"
             /\ Trim(chat'[r].message) = "") =>
            /\ chat'[r].stage = "responded"
            /\ chat'[r].status = 400
            /\ chat'[r].code = "MISSING_MESSAGE"
            /\ UNCHANGED <<redis, sessionVars, pc, op, proc, embedder, chromaClient,
                           collection, written>>
            /\ calls' = [calls EXCEPT !.chat = @ + 1]
       /\ chat[r].status = 400 =>
            /\ UNCHANGED <<redis, sessionVars, pc, op, proc, searchVars>>
            /\ chat'[r] \in {chat[r], NoChat}]_vars

\* C25 witness: a request with a blank message has been answered 400 on a
\* connected store.
C25_Witness ==
  /\ isConnected /\ clientOk
  /\ Responded("r1")
  /\ chat["r1"].message = " "
  /\ chat["r1"].status = 400

\* C26: clearSession returns true exactly when the key existed and DEL
\* removed it, and false, without throwing, otherwise (in particular for an
\* id never created, expired or already cleared); DELETE /session/:id answers
\* 200 for true and 404 SESSION_NOT_FOUND for false.
C26_ClearTrueIffKeyDeleted ==
  [][\A r \in Reqs :
       /\ (pc[r] = "idle" /\ op'[r] = "clear" /\ rsid'[r] # "") =>
            LET key == SessionKey(rsid'[r])
            IN  /\ outcome'[r] = "ok"
                /\ ret'[r] \in BOOLEAN
                /\ ret'[r] = TRUE <=> (redis[key].present /\ ~redis'[key].present)
                /\ ~redis[key].present => ret'[r] = FALSE
       /\ (chat[r].stage = "clear" /\ chat'[r].stage = "responded") =>
            /\ ret[r] = TRUE => (chat'[r].status = 200 /\ chat'[r].code = "")
            /\ ret[r] = FALSE =>
                 (chat'[r].status = 404 /\ chat'[r].code = "SESSION_NOT_FOUND")]_vars

\* C26 witness: DELETE on a session whose key has expired, on a connected
\* store, has been answered 404.
C26_Witness ==
  /\ isConnected /\ clientOk
  /\ Responded("r1")
  /\ chat["r1"].status = 404
  /\ chat["r1"].logAtStart = <<>>
  /\ chat["r1"].sessionId = "s1"

\* C27: GET /health answers 503 whenever the health check of the retrieval
\* subsystem fails, and 200 only when it is healthy.
C27_HealthFailureAnswers503 ==
  \A r \in Reqs :
    (Responded(r) /\ chat[r].body # <<>>) =>
      (chat[r].status = 200 <=> chat[r].body.chatbot = "healthy")


\* The answer of request r is one of the three a /chat request may get: 200
\* with a response object (the fixed 'no answer' texts come with no
\* sources), 400 MISSING_MESSAGE, or 500 PROCESSING_ERROR.
ChatAnswerWellFormed(r) ==
  \/ /\ chat[r].status = 200
     /\ chat[r].code = ""
     /\ chat[r].response.set
     /\ chat[r].response.content # ""
     /\ chat[r].response.content \in {NOT_FOUND_MESSAGE, NOT_RELATED_MESSAGE} =>
          chat[r].response.sources = <<>>
  \/ chat[r].status = 400 /\ chat[r].code = "MISSING_MESSAGE"
  \/ chat[r].status = 500 /\ chat[r].code = "PROCESSING_ERROR"

RECURSIVE SurvivorsFrom(_, _)
SurvivorsFrom(searchResults, i) ==
  IF i > PassageCount(searchResults) THEN <<>>
  ELSE LET d == DistanceAt(FirstOf(searchResults.distances), i)
       IN  (IF d # Undefined /\ d > DISTANCE_CUTOFF THEN <<>> ELSE <<i>>)
             \o SurvivorsFrom(searchResults, i + 1)

\* The total length of the blocks of the first k surviving passages.
RECURSIVE PrefixLength(_, _, _)
PrefixLength(searchResults, survivors, k) ==
  IF k = 0 THEN 0
  ELSE PrefixLength(searchResults, survivors, k - 1)
         + Len(BlockAt(searchResults, survivors[k]))

\* C33: the text is made of the blocks of a prefix of the surviving passages
\* (those not farther than 0.8, in the order of the search result): the
\* prefix ends at the first survivor whose block would take the total over
\* maxLength, and nothing after that survivor is included, even a block that
\* would fit.
C33_IncludedIsPrefixOfSurvivors ==
  build.called =>
    LET sr == build.searchResults
        survivors == SurvivorsFrom(sr, 1)
    IN  \E k \in 0..Len(survivors) :
          /\ build.context =
               Trim(BlocksFrom(sr, {survivors[j] : j \in 1..k}, 1))
          /\ PrefixLength(sr, survivors, k) <= build.maxLength
          /\ k < Len(survivors) =>
               PrefixLength(sr, survivors, k + 1) > build.maxLength

\* C33 witness: the first of two surviving passages has a block over the
\* budget, the second a block within it: the text is empty.
C33_Witness ==
  /\ build.called
  /\ Len(SurvivorsFrom(build.searchResults, 1)) = 2
  /\ Len(BlockAt(build.searchResults, 1)) > build.maxLength
  /\ Len(BlockAt(build.searchResults, 2)) <= build.maxLength
  /\ build.context = ""


\* C32: isHealthy() is true exactly when the isConnected flag is set and the
\* client exists and is ready. It is false before connect() is called; it is
\* false after a connect() that failed and after a disconnect() that
\* succeeded; and it only turns true when client.connect() succeeds or when
\* the client of a service whose flag is set becomes ready again.
C32_HealthyIffConnectedAndReady ==
  /\ ~isHealthy
  /\ [](isHealthy <=> (isConnected /\ clientOk))
  /\ [](\A r \in Reqs :
          (Completed(r, "connect") /\ outcome[r] = "error") => ~isConnected)
  /\ [][\A r \in Reqs :
          /\ (pc[r] # "done" /\ pc'[r] = "done" /\ op'[r] = "connect"
                /\ outcome'[r] = "error") => ~isHealthy'
          /\ (pc[r] = "idle" /\ pc'[r] = "done" /\ op'[r] = "disconnect"
                /\ ret'[r] = <<"closed">>) => ~isHealthy'
          /\ (op[r] = "connect" /\ pc[r] = "connecting") => ~isHealthy
          /\ (~isHealthy /\ isHealthy') =>
               \/ \E q \in Reqs : pc[q] = "connecting" /\ pc'[q] = "pinging"
               \/ isConnected /\ ~clientOk /\ clientOk']_vars

\* C32 witness: a connect() whose ping failed has ended with the flag down
\* although the client is still ready, and GET /health has reported the
\* store unhealthy.
C32_Witness ==
  /\ Completed("r1", "connect")
  /\ outcome["r1"] = "error"
  /\ clientOk
  /\ ~isHealthy
  /\ Responded("r2")
  /\ chat["r2"].body.redis = "unhealthy"


\* What the rest of C34 says, for request r in one step: the history read is
\* kept as it is until the answer, the message of the request gets its id
\* (a new one) only when it is appended, after the read, and processQuery is
\* given the history read and, as the query, the trimmed message.
HistoryReadBeforeAppend(r) ==
  /\ (chat[r].stage = "context" /\ pc[r] = "idle" /\ pc'[r] = "done") =>
       \A i \in 1..Len(StoredLog(chat[r].sessionId)) :
         StoredLog(chat[r].sessionId)[i].id < nextId
  /\ (chat[r].stage = "context" /\ chat'[r].stage = "userAdd") =>
       chat'[r].conversationHistory = ret[r]
  /\ (chat[r].stage \in {"userAdd", "process", "assistantAdd"}
        /\ chat'[r].stage # "none") =>
       chat'[r].conversationHistory = chat[r].conversationHistory
  /\ (chat[r].stage = "userAdd" /\ pc[r] = "idle" /\ pc'[r] # "idle") =>
       /\ rmsg'[r].id = nextId
       /\ rmsg'[r].role = "user"
       /\ rmsg'[r].content = Trim(chat[r].message)
  /\ (proc[r].stage = "none" /\ proc'[r].stage # "none") =>
       /\ chat[r].stage = "process"
       /\ proc'[r].conversationHistory = chat[r].conversationHistory
       /\ proc'[r].query = Trim(chat[r].message)

\* C34 as stated: the history a /chat request hands to generation is read
\* before its user message is appended, and it is the last up to 5 messages
\* stored at the moment of the read.
C34_HistoryIsStoredTail ==
  [][\A r \in Reqs :
       /\ HistoryReadBeforeAppend(r)
       /\ (chat[r].stage = "context" /\ pc[r] = "idle" /\ pc'[r] = "done") =>
            ret'[r] = FormatContext(LastN(StoredLog(chat[r].sessionId),
                                          CONTEXT_MESSAGES))]_vars

\* C34, amended: the history a /chat request hands to generation is read
\* before its user message is appended; it is the last up to 5 messages
\* stored at the moment of the read when the store can be read, and empty
\* when it cannot (not connected, or the read fails).
C34_HistoryIsReadableStoredTail ==
  [][\A r \in Reqs :
       /\ HistoryReadBeforeAppend(r)
       /\ (chat[r].stage = "context" /\ pc[r] = "idle" /\ pc'[r] = "done") =>
            ret'[r] = IF isConnected /\ clientOk
                      THEN FormatContext(LastN(StoredLog(chat[r].sessionId),
                                               CONTEXT_MESSAGES))
                      ELSE <<>>]_vars

\* C34 witness: processQuery runs with the five messages read from a log of
\* 49, while the log now holds 50, the last being the request's user message.
C34_Witness ==
  /\ chat["r1"].stage = "process"
  /\ proc["r1"].stage # "none"
  /\ Len(proc["r1"].conversationHistory) = CONTEXT_MESSAGES
  /\ \A i \in 1..CONTEXT_MESSAGES : proc["r1"].conversationHistory[i].content = "hello"
  /\ LET log == StoredLog(chat["r1"].sessionId)
     IN  /\ Len(log) = MAX_MESSAGES
         /\ log[MAX_MESSAGES].content = proc["r1"].query
         /\ log[MAX_MESSAGES].role = "user"


\* C35: after a successful /chat on a connected store with no concurrent
\* request, the stored log ends with the user message (the trimmed message)
\* followed by the assistant message whose content is the returned response
\* and whose metadata holds the returned sources and tokensUsed; a DELETE of a
\* stored session answers 200 and removes the log, after which getHistory
\* returns the empty sequence and a DELETE answers 404 SESSION_NOT_FOUND.
C35_ChatStoresPairThenDeleteClears ==
  /\ [][\A r \in Reqs :
         (chat[r].stage = "assistantAdd" /\ chat'[r].stage = "responded"
          /\ chat'[r].status = 200)
         => LET log == StoredLog(chat[r].sessionId)'
                n == Len(log)
                response == chat'[r].response
            IN  /\ n >= 2
                /\ log[n - 1].role = "user"
                /\ log[n - 1].content = Trim(chat[r].message)
                /\ log[n].role = "assistant"
                /\ log[n].content = response.content
                /\ log[n].metadata = [sources |-> response.sources,
                                      tokensUsed |-> response.tokensUsed]
                /\ log[n].id = log[n - 1].id + 1
                /\ SubSeq(log, 1, n - 2)
                     = LastN(chat[r].logAtStart, Min(Len(chat[r].logAtStart),
                                                     MAX_MESSAGES - 2))]_vars
  /\ [][\A r \in Reqs :
         (chat[r].stage = "clear" /\ chat'[r].stage = "responded")
         => /\ chat'[r].status = IF chat[r].logAtStart # <<>> THEN 200 ELSE 404
            /\ chat'[r].code = IF chat[r].logAtStart # <<>> THEN ""
                                ELSE "SESSION_NOT_FOUND"
            /\ StoredLog(chat[r].sessionId)' = <<>>]_vars
  /\ [][\A r \in Reqs :
         (op'[r] = "history" /\ pc[r] = "idle" /\ pc'[r] = "done")
         => ret'[r] = StoredLog(rsid'[r])]_vars
  /\ [](\A r \in Reqs :
         (chat[r].stage = "responded" /\ chat[r].status \in {200, 404}
          /\ chat[r].code \in {"", "SESSION_NOT_FOUND"} /\ chat[r].message = "")
         => StoredLog(chat[r].sessionId) = <<>>)

\* C35 witness: a /chat on the new session s2 has stored its two messages,
\* a DELETE has removed them, and a second DELETE is answered 404.
C35_Witness ==
  /\ chat["r1"].stage = "responded"
  /\ chat["r1"].sessionId = "s2"
  /\ chat["r1"].status = 404
  /\ chat["r1"].code = "SESSION_NOT_FOUND"
  /\ calls.chat = 1
  /\ nextId = 3
  /\ Len(StoredLog("s1")) = MAX_MESSAGES - 1
  /\ StoredLog("s2") = <<>>
\* The query keys of the store.
QueryKeys == {QueryKey(QueryHash(q)) : q \in Queries}

\* C36: a query-cache entry is written only by the cacheQuery step of a search
\* that missed and whose vector-store query returned, under the key that was
\* read (the hash of the raw query), with the result returned to the caller
\* as its value; a hit returns at once and writes nothing; a cache write that
\* cannot be made is swallowed and the search still returns its result.
C36_CacheWrittenOnMissWithResult ==
  /\ [][\A k \in QueryKeys :
         redis'[k] # redis[k]
         => \E r \in Reqs :
              /\ pc[r] = "cacheQuery" /\ pc'[r] = "done"
              /\ k = QueryKey(QueryHash(rquery[r]))
              /\ redis'[k].present
              /\ JSONParse(redis'[k].val) = ret'[r]
              /\ redis'[k].expireAt = now + QUERY_TTL
              /\ \A other \in Keys \ {k} : redis'[other] = redis[other]]_vars
  /\ [][\A r \in Reqs :
         (pc[r] = "cacheQuery" /\ pc'[r] # "cacheQuery")
         => /\ pc'[r] = "done"
            /\ outcome'[r] = "ok"
            /\ ret'[r] = ret[r]
            /\ IF isConnected /\ clientOk
               THEN RedisGet(QueryKey(QueryHash(rquery[r])))' = JSONStringify(ret[r])
               ELSE redis' = redis]_vars
  /\ [][\A r \in Reqs :
         (pc[r] # "cacheQuery" /\ pc'[r] = "cacheQuery")
         => /\ pc[r] = "query"
            /\ op[r] = "search"
            /\ ret'[r] = collection[rquery[r]]]_vars
  /\ [][\A r \in Reqs :
         (pc[r] = "idle" /\ pc'[r] # "idle" /\ op'[r] = "search")
         => LET cached == getCachedQuery(QueryHash(rquery'[r]))
            IN  /\ redis' = redis
                /\ IF cached # <<>>
                   THEN pc'[r] = "done" /\ ret'[r] = cached /\ outcome'[r] = "ok"
                   ELSE pc'[r] = "loadEmbedder"]_vars
  /\ [][\A r \in Reqs :
         (pc[r] = "query" /\ pc'[r] = "done" /\ op[r] = "search")
         => outcome'[r] = "error" /\ redis' = redis]_vars

\* C36 witness: a search that missed has returned its result while the store
\* was down, so the write was skipped and no entry exists for its query.
C36_Witness ==
  \E r \in Reqs :
    /\ op[r] = "search" /\ pc[r] = "done" /\ outcome[r] = "ok"
    /\ ret[r] = collection[rquery[r]]
    /\ ~(isConnected /\ clientOk)
    /\ ~redis[QueryKey(QueryHash(rquery[r]))].present
    /\ \E q \in Queries : redis[QueryKey(QueryHash(q))].present
\* The methods that only read.
ReadOps == {"history", "context", "stats", "exists", "cached"}

\* A call of a read method by request r, from its start to its return.
ReadCall(r) == pc[r] = "idle" /\ pc'[r] = "done" /\ op'[r] \in ReadOps

\* The statistics of a log, field by field.
StatsOf(stats, log) ==
  IF log = <<>>
  THEN stats = [messageCount |-> 0, startTime |-> NullTime, lastActivity |-> NullTime]
  ELSE /\ stats.messageCount
            = Cardinality({i \in 1..Len(log) : log[i].role = "user"})
       /\ stats.startTime = log[1].timestamp
       /\ stats.lastActivity = log[Len(log)].timestamp

\* C37 as stated: the read methods leave every stored log, every cached
\* result and every TTL unchanged, and getStats returns the statistics of the
\* log stored now.
C37_ReadsChangeNothingStatsOfLog ==
  [][\A r \in Reqs :
       ReadCall(r)
       => /\ redis' = redis
          /\ (op'[r] = "stats" /\ outcome'[r] = "ok")
             => StatsOf(ret'[r], StoredLog(rsid'[r]))]_vars

\* C37: the read methods leave every stored log, every cached result and
\* every TTL unchanged; getStats returns the statistics of the log stored now
\* when the store can be read, and those of the empty log (zero and nulls)
\* when it cannot; sessionExists tells whether the history read is non-empty.
C37_ReadsChangeNothingStatsOfHistoryRead ==
  [][\A r \in Reqs :
       ReadCall(r)
       => LET log == IF isConnected /\ clientOk THEN StoredLog(rsid'[r]) ELSE <<>>
          IN  /\ redis' = redis
              /\ now' = now
              /\ logical' = logical
              /\ written' = written
              /\ (op'[r] = "stats" /\ outcome'[r] = "ok") => StatsOf(ret'[r], log)
              /\ (op'[r] = "exists" /\ outcome'[r] = "ok") => (ret'[r] = (log # <<>>))]_vars

\* C37 witness: getStats has returned the statistics of a full log whose
\* first and last messages were stored at different times, while a cached
\* query result is in the store.
C37_Witness ==
  /\ op["r2"] = "stats" /\ pc["r2"] = "done" /\ outcome["r2"] = "ok"
  /\ ret["r2"].messageCount > 0
  /\ ret["r2"].totalMessages = MAX_MESSAGES
  /\ ret["r2"].startTime # ret["r2"].lastActivity
  /\ \E q \in Queries : redis[QueryKey(QueryHash(q))].present
\* The /chat request that a step of the page settles, if any.
SettledBy(request) == request \in net.chat /\ request \notin net'.chat

C39_DisplayedMessagesOfDisplayedSession ==
  \A i \in 1..Len(ui.messages) :
    ui.messages[i].role = "assistant" => ui.messages[i].session = ui.sessionId
====
